---------------------------- MODULE Spec2Model ----------------------------
(***************************************************************************)
(* Model of the poetry-declamation generator (src/poetry-declamation):     *)
(* parse_bookmarks, video_block, inline_link, expand_inline_refs,          *)
(* inline_format and the md_to_html line loop of build.py.                 *)
(*                                                                         *)
(* Python strings are TLA+ strings; TLC evaluates Len, Head, Tail, SubSeq  *)
(* and \o on them, so every regular expression of the source is modelled   *)
(* character by character.                                                 *)
(***************************************************************************)
EXTENDS Integers, Sequences, FiniteSets, TLC

VARIABLES
    lines,        \* md.splitlines(): the document, a sequence of strings
    resources,    \* dict id -> {"type","label","url","desc"}
    i,            \* the line index of the running loop (0-based, as in the code)
    out,          \* md_to_html: list of emitted fragments
    in_ul, in_ol, in_bq, in_teacher,   \* md_to_html: open-block flags
    rid,          \* the resource id in hand (fence opener / declaration / call)
    prompts,      \* md_to_html: prompt bundle of the fenced block being read
    current,      \* md_to_html: current section of the fenced block ("" is None)
    item,         \* parse_bookmarks: the record being populated
    pc,           \* which loop (or function) runs next
    prev,         \* history: i, len(out) and the flags when the last outer
                  \* iteration of md_to_html (or its end-of-input code) began
    ret,          \* the value returned by the function that ran
    text,         \* argument of the inline functions
    parts         \* history: the pieces the argument was assembled from

vars == <<lines, resources, i, out, in_ul, in_ol, in_bq, in_teacher, rid,
          prompts, current, item, pc, prev, ret, text, parts>>

-----------------------------------------------------------------------------
(* Bounds of the model.                                                    *)

MaxLines == 3        \* lines of a rendered document
MaxBmLines == 4      \* lines of a bookmark document
MaxPieces == 3       \* pieces an inline text is assembled from
MaxFenceLines == 3   \* lines that follow a fenced-video opener

-----------------------------------------------------------------------------
(* Strings.                                                                *)

\* An operator named ...On computes on its arguments; the operator of the
\* source's name next to it binds the value of each argument first, so
\* that an argument that is itself a long computation is computed once.

Min(S) == CHOOSE x \in S : \A y \in S : x <= y
Max(S) == CHOOSE x \in S : \A y \in S : x >= y

\* s[k-1:k] of Python, 1-based; "" outside the string.
Ch(s, k) == IF k >= 1 /\ k <= Len(s) THEN SubSeq(s, k, k) ELSE ""

\* s[a-1:b] of Python, 1-based and inclusive.
Sub(s, a, b) == IF a > b \/ a > Len(s) THEN "" ELSE SubSeq(s, a, b)

From(s, k) == Sub(s, k, Len(s))

StartsWithAt(s, k, p) ==
    /\ k >= 1
    /\ k + Len(p) - 1 <= Len(s)
    /\ Sub(s, k, k + Len(p) - 1) = p

startswith(s, p) == StartsWithAt(s, 1, p)

\* str.find from position k (1-based); 0 when absent.
FindOn(s, p, k) ==
    LET hits == {j \in k..(Len(s) - Len(p) + 1) : StartsWithAt(s, j, p)}
    IN  IF hits = {} THEN 0 ELSE Min(hits)

Find(s, p, k) ==
    CHOOSE r \in {FindOn(s_, p_, k_) : s_ \in {s}, p_ \in {p}, k_ \in {k}} : TRUE

Contains(s, p) == Find(s, p, 1) # 0

Chars(s) == {Ch(s, k) : k \in 1..Len(s)}

\* The backtick: the lexer reads one inside a string as an opening quote,
\* so it is cut out of a quoted pair.
Backtick == SubSeq("`'", 1, 1)
Fence == Backtick \o Backtick \o Backtick

\* Whitespace of str.strip() and of \s that a line can hold.
White == {" ", "\t"}
Digits == Chars("0123456789")
Letters == Chars("abcdefghijklmnopqrstuvwxyzABCDEFGHIJKLMNOPQRSTUVWXYZ")
\* [a-zA-Z0-9_\-]
IdChars == Letters \cup Digits \cup {"_", "-"}
\* \w, for the \b of the anchor pattern
WordChars == Letters \cup Digits \cup {"_"}

RECURSIVE lstrip(_)
lstripOn(s) == IF s # "" /\ Head(s) \in White THEN lstrip(Tail(s)) ELSE s

lstrip(s) ==
    CHOOSE r \in {lstripOn(s_) : s_ \in {s}} : TRUE

RECURSIVE rstrip(_)
rstripOn(s) ==
    IF s # "" /\ Ch(s, Len(s)) \in White THEN rstrip(Sub(s, 1, Len(s) - 1)) ELSE s

rstrip(s) ==
    CHOOSE r \in {rstripOn(s_) : s_ \in {s}} : TRUE

strip(s) == rstrip(lstrip(s))

\* The end (inclusive) of the longest run of characters of class C that
\* starts at k; k - 1 when s[k] is not in C.
RECURSIVE RunEnd(_, _, _)
RunEnd(s, k, C) == IF Ch(s, k) \in C /\ k <= Len(s) THEN RunEnd(s, k + 1, C) ELSE k - 1

\* str(n) for the small naturals the model meets.
Str(n) ==
    LET d(k) == Ch("0123456789", k + 1)
    IN  IF n < 10 THEN d(n) ELSE d(n \div 10) \o d(n % 10)

RECURSIVE Join(_, _)
Join(sep, seq) ==
    IF seq = <<>> THEN ""
    ELSE IF Len(seq) = 1 THEN seq[1]
    ELSE seq[1] \o sep \o Join(sep, Tail(seq))

\* dict.get(key, default) on a record that may lack the key.
Get(d, key, default) == IF key \in DOMAIN d THEN d[key] ELSE default


\* The end (inclusive) of the longest run of characters outside C that
\* starts at k; k - 1 when s[k] is in C or k is past the end.
RECURSIVE RunEndNot(_, _, _)
RunEndNot(s, k, C) ==
    IF k <= Len(s) /\ Ch(s, k) \notin C THEN RunEndNot(s, k + 1, C) ELSE k - 1

\* str.replace(old, new): every occurrence, left to right.
RECURSIVE replace(_, _, _)
replaceOn(s, old, new) ==
    LET k == Find(s, old, 1)
    IN  IF k = 0 THEN s
        ELSE Sub(s, 1, k - 1) \o new \o replace(From(s, k + Len(old)), old, new)

replace(s, old, new) ==
    CHOOSE r \in {replaceOn(s_, old_, new_) :
                     s_ \in {s}, old_ \in {old}, new_ \in {new}} : TRUE

\* Faulty variant of html_escape: the slash is escaped as well.
html_escape_slash(s) ==
    replace(replace(replace(replace(replace(replace(s,
        "&", "&amp;"), "<", "&lt;"), ">", "&gt;"), "\"", "&quot;"), "'", "&#x27;"),
        "/", "&#x2F;")

\* html.escape(s, quote=True): the standard library's chain of replacements.
html_escape(s) ==
    replace(replace(replace(replace(replace(s,
        "&", "&amp;"), "<", "&lt;"), ">", "&gt;"), "\"", "&quot;"), "'", "&#x27;")

-----------------------------------------------------------------------------
(* video_block.                                                            *)

\* resources.get(rid) is None or an empty dict.
NoItem(r, res) == r \notin DOMAIN res \/ DOMAIN res[r] = {}

\* not item or not item.get("url")
Missing(r, res) == NoItem(r, res) \/ Get(res[r], "url", "") = ""

\* re.search(marker + "([^?&/]+)", url).group(1); "" when there is no match.
SearchId(url, marker) ==
    LET n == Len(marker)
        hits == {k \in 1..Len(url) :
                    /\ StartsWithAt(url, k, marker)
                    /\ RunEndNot(url, k + n, {"?", "&", "/"}) >= k + n}
    IN  IF hits = {} THEN ""
        ELSE LET k == Min(hits)
             IN  Sub(url, k + n, RunEndNot(url, k + n, {"?", "&", "/"}))


\* Faulty variant of VideoId: the two searches in the other order, so the
\* youtu.be/ match overwrites the youtube.com/watch?v= match.
VideoIdShortWins(url) ==
    LET short == SearchId(url, "youtu.be/")
        canon == SearchId(url, "youtube.com/watch?v=")
    IN  IF short # "" THEN short ELSE canon

\* vid of video_block: the youtube.com/watch?v= match, when there is one,
\* overwrites the youtu.be/ match.
VideoId(url) ==
    LET short == SearchId(url, "youtu.be/")
        canon == SearchId(url, "youtube.com/watch?v=")
    IN  IF canon # "" THEN canon ELSE short

ThumbUrl(vid) == "https://i.ytimg.com/vi/" \o vid \o "/hqdefault.jpg"

video_block(r, res) ==
    IF Missing(r, res)
    THEN "<div class='video'>"
         \o "<div class='video-top'>"
         \o "<div class='video-title'><span class='tag'>Video</span> Missing bookmark: "
         \o "<code>" \o html_escape(r) \o "</code></div>"
         \o "</div></div>"
    ELSE
    LET it == res[r]
        url == it["url"]
        l0 == Get(it, "label", "Video")
        label == strip(IF l0 = "" THEN "Video" ELSE l0)
        desc == strip(Get(it, "desc", ""))
        vid == VideoId(url)
        safe_url == html_escape(url)
        safe_label == html_escape(label)
        safe_desc == html_escape(desc)
        thumb_html ==
            IF vid # ""
            THEN "<a class='video-thumb' href=\"" \o safe_url
                 \o "\" target=\"_blank\" rel=\"noreferrer\">"
                 \o "<img alt='Video thumbnail' src=\""
                 \o html_escape(ThumbUrl(vid)) \o "\"></a>"
            ELSE ""
        top == "<div class='video-top'>"
               \o thumb_html
               \o "<div class='video-title'><span class='tag'>Video</span> "
               \o "<a href=\"" \o safe_url
               \o "\" target=\"_blank\" rel=\"noreferrer\"><strong>"
               \o safe_label \o "</strong></a></div>"
               \o (IF desc # "" THEN "<p class='video-desc'>" \o safe_desc \o "</p>"
                   ELSE "")
               \o "</div>"
        bottom == "<div class='video-bottom'>"
                  \o "<p class='video-open'><a href=\"" \o safe_url
                  \o "\" target=\"_blank\" rel=\"noreferrer\">Open on YouTube</a></p>"
                  \o "</div>"
    IN  "<div class='video'>" \o top \o bottom \o "</div>"

-----------------------------------------------------------------------------
(* inline_link, expand_inline_refs, inline_format.                         *)


\* Faulty variant of inline_link: the id goes into the indicator as it is.
inline_link_raw_id(r, res) ==
    IF Missing(r, res)
    THEN "<code>Missing:" \o r \o "</code>"
    ELSE LET it == res[r]
             url == it["url"]
             l0 == Get(it, "label", "Link")
             label == strip(IF l0 = "" THEN "Link" ELSE l0)
         IN  "<a href=\"" \o html_escape(url)
             \o "\" target=\"_blank\" rel=\"noreferrer\">"
             \o html_escape(label) \o "</a>"

inline_link(r, res) ==
    IF Missing(r, res)
    THEN "<code>Missing:" \o html_escape(r) \o "</code>"
    ELSE LET it == res[r]
             url == it["url"]
             l0 == Get(it, "label", "Link")
             label == strip(IF l0 = "" THEN "Link" ELSE l0)
         IN  "<a href=\"" \o html_escape(url)
             \o "\" target=\"_blank\" rel=\"noreferrer\">"
             \o html_escape(label) \o "</a>"

\* The last position of a match of \{\{link:([a-zA-Z0-9_\-]+)\}\} that
\* starts at k; 0 when none starts there.
LinkEnd(t, k) ==
    IF StartsWithAt(t, k, "{{link:")
    THEN LET e == RunEnd(t, k + 7, IdChars)
         IN  IF e >= k + 7 /\ StartsWithAt(t, e + 1, "}}") THEN e + 2 ELSE 0
    ELSE 0

RECURSIVE expand_inline_refs(_, _)
expand_inline_refsOn(t, res) ==
    LET hits == {k \in 1..Len(t) : LinkEnd(t, k) # 0}
    IN  IF hits = {} THEN t
        ELSE LET k == Min(hits)
                 e == LinkEnd(t, k)
             IN  Sub(t, 1, k - 1)
                 \o inline_link(Sub(t, k + 7, e - 2), res)
                 \o expand_inline_refs(From(t, e + 1), res)

expand_inline_refs(t, res) ==
    CHOOSE r \in {expand_inline_refsOn(t_, res_) : t_ \in {t}, res_ \in {res}} : TRUE

\* The last position of a match of <a\b[^>]*>.*?</a> that starts at k; 0
\* when none starts there.
AnchorEnd(t, k) ==
    IF StartsWithAt(t, k, "<a") /\ Ch(t, k + 2) \notin WordChars
    THEN LET g == Find(t, ">", k + 2)
         IN  IF g = 0 THEN 0
             ELSE LET c == Find(t, "</a>", g + 1)
                  IN  IF c = 0 THEN 0 ELSE c + 3
    ELSE 0

Placeholder(n) == "@@ANCHOR" \o Str(n) \o "@@"

\* re.sub(r"<a\b[^>]*>.*?</a>", protect, text) with n anchors already
\* taken: the protected text and the anchors, in order.
RECURSIVE Protect(_, _)
ProtectOn(t, n) ==
    LET hits == {k \in 1..Len(t) : AnchorEnd(t, k) # 0}
    IN  IF hits = {} THEN [s |-> t, anchors |-> <<>>]
        ELSE LET k == Min(hits)
                 e == AnchorEnd(t, k)
                 rest == Protect(From(t, e + 1), n + 1)
             IN  [s |-> Sub(t, 1, k - 1) \o Placeholder(n) \o rest.s,
                  anchors |-> <<Sub(t, k, e)>> \o rest.anchors]

Protect(t, n) ==
    CHOOSE r \in {ProtectOn(t_, n_) : t_ \in {t}, n_ \in {n}} : TRUE

\* re.sub of BT([^BT]+)BT by <code>\1</code>, BT the backtick.
CodeEnd(s, k) ==
    IF Ch(s, k) = Backtick
    THEN LET n == Find(s, Backtick, k + 1) IN IF n >= k + 2 THEN n ELSE 0
    ELSE 0

RECURSIVE SubCode(_)
SubCodeOn(s) ==
    LET hits == {k \in 1..Len(s) : CodeEnd(s, k) # 0}
    IN  IF hits = {} THEN s
        ELSE LET k == Min(hits)
                 n == CodeEnd(s, k)
             IN  Sub(s, 1, k - 1) \o "<code>" \o Sub(s, k + 1, n - 1) \o "</code>"
                 \o SubCode(From(s, n + 1))

SubCode(s) ==
    CHOOSE r \in {SubCodeOn(s_) : s_ \in {s}} : TRUE

\* re.sub(r"\*\*([^*]+)\*\*", r"<strong>\1</strong>", s)
StrongEnd(s, k) ==
    IF StartsWithAt(s, k, "**")
    THEN LET n == Find(s, "*", k + 2)
         IN  IF n >= k + 3 /\ StartsWithAt(s, n, "**") THEN n + 1 ELSE 0
    ELSE 0

RECURSIVE SubStrong(_)
SubStrongOn(s) ==
    LET hits == {k \in 1..Len(s) : StrongEnd(s, k) # 0}
    IN  IF hits = {} THEN s
        ELSE LET k == Min(hits)
                 e == StrongEnd(s, k)
             IN  Sub(s, 1, k - 1) \o "<strong>" \o Sub(s, k + 2, e - 2) \o "</strong>"
                 \o SubStrong(From(s, e + 1))

SubStrong(s) ==
    CHOOSE r \in {SubStrongOn(s_) : s_ \in {s}} : TRUE

\* re.sub(r"(?<!\*)\*([^*]+)\*(?!\*)", r"<em>\1</em>", s): the look-behind
\* reads the subject string, so the scan keeps the whole string.
EmEnd(s, k) ==
    IF Ch(s, k) = "*" /\ Ch(s, k - 1) # "*"
    THEN LET n == Find(s, "*", k + 1)
         IN  IF n >= k + 2 /\ Ch(s, n + 1) # "*" THEN n ELSE 0
    ELSE 0

RECURSIVE SubEm(_, _)
SubEmOn(s, from) ==
    LET hits == {k \in from..Len(s) : EmEnd(s, k) # 0}
    IN  IF hits = {} THEN From(s, from)
        ELSE LET k == Min(hits)
                 n == EmEnd(s, k)
             IN  Sub(s, from, k - 1) \o "<em>" \o Sub(s, k + 1, n - 1) \o "</em>"
                 \o SubEm(s, n + 1)

SubEm(s, from) ==
    CHOOSE r \in {SubEmOn(s_, from_) : s_ \in {s}, from_ \in {from}} : TRUE

\* for i, a in enumerate(anchors): esc = esc.replace(f"@@ANCHOR{i}@@", a)
RECURSIVE Restore(_, _, _)
RestoreOn(esc, anchors, n) ==
    IF n >= Len(anchors) THEN esc
    ELSE Restore(replace(esc, Placeholder(n), anchors[n + 1]), anchors, n + 1)

Restore(esc, anchors, n) ==
    CHOOSE r \in {RestoreOn(esc_, anchors_, n_) :
                     esc_ \in {esc}, anchors_ \in {anchors}, n_ \in {n}} : TRUE

\* The emphasis substitutions, in the order the code applies them.
Emphasis(esc) == SubEm(SubStrong(SubCode(esc)), 1)

\* inline_format once the anchors are protected: p is the protected text
\* and the list of anchors.
FormatProtected(p) == Restore(Emphasis(html_escape(p.s)), p.anchors, 0)

inline_format(t) == FormatProtected(Protect(t, 0))

\* inline_format(expand_inline_refs(text, resources)), as every caller
\* composes them.
Inline(t, res) == inline_format(expand_inline_refs(t, res))

-----------------------------------------------------------------------------
(* local_prompts_block.                                                    *)

RECURSIVE PromptItems(_, _)
PromptItems(list, res) ==
    IF list = <<>> THEN ""
    ELSE "<li>" \o Inline(Head(list), res) \o "</li>" \o PromptItems(Tail(list), res)

\* The Task section: only if the stripped task text is not empty.
TaskSection(p, res) ==
    IF strip(p.task) # ""
    THEN "<div class='prompt-section'>"
         \o "<div class='prompt-title'>Task</div>"
         \o "<p>" \o Inline(strip(p.task), res) \o "</p>"
         \o "</div>"
    ELSE ""

\* The "Watch for" and "After watching" sections: only if the list is not
\* empty.
ListSection(title, list, res) ==
    IF list # <<>>
    THEN "<div class='prompt-section'>"
         \o "<div class='prompt-title'>" \o title \o "</div>"
         \o "<ul>" \o PromptItems(list, res) \o "</ul>"
         \o "</div>"
    ELSE ""

\* "".join(sections) wrapped, or "" when there is no section.
WrapSections(sections) ==
    IF sections = "" THEN ""
    ELSE "<div class='local-prompts'>"
         \o "<div class='local-prompts-title'>Local prompts</div>"
         \o sections
         \o "</div>"

local_prompts_block(p, res) ==
    WrapSections(TaskSection(p, res)
                 \o ListSection("Watch for", p.watch, res)
                 \o ListSection("After watching", p.after, res))

-----------------------------------------------------------------------------
(* md_to_html: the patterns of the dispatch chain.  Each takes the line    *)
(* as the code passes it (stripped where the code strips it).              *)

\* ^BT BT BT video\s+([a-zA-Z0-9_\-]+)\s*$ : the id, "" when no match.
FenceId(t) ==
    LET open == Fence \o "video"
        w == RunEnd(t, Len(open) + 1, White)
        e == RunEnd(t, w + 1, IdChars)
    IN  IF /\ startswith(t, open)
           /\ w >= Len(open) + 1
           /\ e >= w + 1
           /\ RunEnd(t, e + 1, White) = Len(t)
        THEN Sub(t, w + 1, e) ELSE ""

\* ^\{\{video:([a-zA-Z0-9_\-]+)\}\}\s*$ : the id, "" when no match.
VideoRefId(t) ==
    LET e == RunEnd(t, 9, IdChars)
    IN  IF /\ startswith(t, "{{video:")
           /\ e >= 9
           /\ StartsWithAt(t, e + 1, "}}")
           /\ RunEnd(t, e + 3, White) = Len(t)
        THEN Sub(t, 9, e) ELSE ""

\* ^(#{1,4})\s+(.*)$ : len(group 1), 0 when no match.  The character after
\* the hashes taken must be whitespace, so all the leading hashes are taken.
HeadingLevel(t) ==
    LET h == RunEnd(t, 1, {"#"})
    IN  IF h >= 1 /\ h <= 4 /\ Ch(t, h + 1) \in White THEN h ELSE 0

HeadingText(t) ==
    LET h == HeadingLevel(t) IN From(t, RunEnd(t, h + 1, White) + 1)

\* ^(\d+)\.\s+(.*)$ : the position where group 2 starts, 0 when no match.
OlText(t) ==
    LET d == RunEnd(t, 1, Digits)
    IN  IF d >= 1 /\ Ch(t, d + 1) = "." /\ Ch(t, d + 2) \in White
        THEN RunEnd(t, d + 2, White) + 1 ELSE 0

\* ^[-*]\s+(.*)$ : the position where group 1 starts, 0 when no match.
UlText(t) ==
    IF Ch(t, 1) \in {"-", "*"} /\ Ch(t, 2) \in White
    THEN RunEnd(t, 2, White) + 1 ELSE 0

\* The branch of the if-chain of the loop body that takes the line.
Dispatch(line) ==
    LET t == strip(line)
    IN  IF t = ":::teacher" THEN "teacher"
        ELSE IF t = ":::" THEN "teacher_end"
        ELSE IF FenceId(t) # "" THEN "fence"
        ELSE IF VideoRefId(t) # "" THEN "video"
        ELSE IF t = "" THEN "blank"
        ELSE IF HeadingLevel(t) # 0 THEN "heading"
        ELSE IF startswith(lstrip(line), ">") THEN "blockquote"
        ELSE IF OlText(t) # 0 THEN "ol"
        ELSE IF UlText(t) # 0 THEN "ul"
        ELSE "paragraph"

-----------------------------------------------------------------------------
(* md_to_html: the closures close_lists and close_bq, on the locals they   *)
(* share with the loop.                                                    *)

Locals == [out |-> out, in_ul |-> in_ul, in_ol |-> in_ol, in_bq |-> in_bq]


\* Faulty variant of close_lists: the ordered list is forgotten.
close_lists_ul_only(s) ==
    IF s.in_ul
    THEN [s EXCEPT !.out = Append(@, "</ul>"), !.in_ul = FALSE] ELSE s

close_lists(s) ==
    LET s1 == IF s.in_ul
              THEN [s EXCEPT !.out = Append(@, "</ul>"), !.in_ul = FALSE] ELSE s
    IN  IF s1.in_ol
        THEN [s1 EXCEPT !.out = Append(@, "</ol>"), !.in_ol = FALSE] ELSE s1

close_bq(s) ==
    IF s.in_bq
    THEN [s EXCEPT !.out = Append(@, "</blockquote>"), !.in_bq = FALSE] ELSE s

\* Writes the shared locals back.
Store(s) ==
    /\ out' = s.out
    /\ in_ul' = s.in_ul
    /\ in_ol' = s.in_ol
    /\ in_bq' = s.in_bq

\* lines[i] of the code.
Line == lines[i + 1]

\* What the history variable records when an outer iteration begins.
Snapshot ==
    [i |-> i, n |-> Len(out), in_ul |-> in_ul, in_ol |-> in_ol,
     in_bq |-> in_bq, in_teacher |-> in_teacher]

InLoop(kind) == pc = "md_loop" /\ i < Len(lines) /\ Dispatch(Line) = kind

bookmarkVars == <<item>>
inlineVars == <<text, parts>>
fenceVars == <<rid, prompts, current>>

-----------------------------------------------------------------------------
(* md_to_html: one action per branch of the loop body.                     *)

TeacherOpenTag == "<div class=\"teacher-only\">"
TeacherCloseTag == "</div>"


\* Faulty variant of TeacherOpen: the opener is emitted whether or not the
\* section is open.
TeacherOpenAlways ==
    /\ InLoop("teacher")
    /\ LET s == close_bq(close_lists(Locals))
       IN  Store([s EXCEPT !.out = Append(@, TeacherOpenTag)])
    /\ in_teacher' = TRUE
    /\ i' = i + 1
    /\ prev' = Snapshot
    /\ UNCHANGED <<lines, resources, fenceVars, pc, ret, bookmarkVars, inlineVars>>

\* if line.strip() == ":::teacher"
TeacherOpen ==
    /\ InLoop("teacher")
    /\ LET s == close_bq(close_lists(Locals))
       IN  Store(IF ~in_teacher
                 THEN [s EXCEPT !.out = Append(@, TeacherOpenTag)] ELSE s)
    /\ in_teacher' = TRUE
    /\ i' = i + 1
    /\ prev' = Snapshot
    /\ UNCHANGED <<lines, resources, fenceVars, pc, ret, bookmarkVars, inlineVars>>

\* Faulty variant of TeacherClose: the open list or quotation is left open.
TeacherCloseKeepsOpen ==
    /\ InLoop("teacher_end")
    /\ Store(IF in_teacher
             THEN [Locals EXCEPT !.out = Append(@, TeacherCloseTag)] ELSE Locals)
    /\ in_teacher' = FALSE
    /\ i' = i + 1
    /\ prev' = Snapshot
    /\ UNCHANGED <<lines, resources, fenceVars, pc, ret, bookmarkVars, inlineVars>>

\* if line.strip() == ":::"
TeacherClose ==
    /\ InLoop("teacher_end")
    /\ LET s == close_bq(close_lists(Locals))
       IN  Store(IF in_teacher
                 THEN [s EXCEPT !.out = Append(@, TeacherCloseTag)] ELSE s)
    /\ in_teacher' = FALSE
    /\ i' = i + 1
    /\ prev' = Snapshot
    /\ UNCHANGED <<lines, resources, fenceVars, pc, ret, bookmarkVars, inlineVars>>

\* if mfence: the opener; the inner loop runs next.
FenceOpen ==
    /\ InLoop("fence")
    /\ Store(close_bq(close_lists(Locals)))
    /\ rid' = FenceId(strip(Line))
    /\ prompts' = [task |-> "", watch |-> <<>>, after |-> <<>>]
    /\ current' = ""
    /\ i' = i + 1
    /\ pc' = "md_fence"
    /\ prev' = Snapshot
    /\ UNCHANGED <<lines, resources, in_teacher, ret, bookmarkVars, inlineVars>>

\* raw.strip().startswith(three backticks)
IsFenceEnd(raw) == startswith(strip(raw), Fence)

\* ^(task|watch|after)\s*:\s*(.*)$ on the stripped line: the key, "" when
\* no match.
PromptKey(t) ==
    LET keys == {k \in {"task", "watch", "after"} :
                    /\ startswith(t, k)
                    /\ Ch(t, RunEnd(t, Len(k) + 1, White) + 1) = ":"}
    IN  IF keys = {} THEN "" ELSE CHOOSE k \in keys : TRUE

\* mkey.group(2).strip()
PromptRest(t) ==
    LET k == PromptKey(t)
        colon == RunEnd(t, Len(k) + 1, White) + 1
    IN  strip(From(t, colon + 1))

\* ^\s*-\s+(.*)$ : the position where group 1 starts, 0 when no match.
ItemText(t) ==
    LET w == RunEnd(t, 1, White)
    IN  IF Ch(t, w + 1) = "-" /\ Ch(t, w + 2) \in White
        THEN RunEnd(t, w + 2, White) + 1 ELSE 0

\* Faulty variant of FenceStep: a continuation line is joined to the task
\* with a space even when the task is empty.
FenceStepSpaceJoin(p, cur, raw) ==
    LET line_in == rstrip(raw)
        t == strip(line_in)
        key == PromptKey(t)
        rest == PromptRest(t)
    IN  IF key # ""
        THEN [current |-> key,
              prompts |-> IF key = "task" THEN [p EXCEPT !.task = rest]
                          ELSE IF rest # "" THEN [p EXCEPT ![key] = Append(@, rest)]
                          ELSE p]
        ELSE IF cur \in {"watch", "after"} /\ ItemText(line_in) # 0
        THEN [current |-> cur,
              prompts |-> [p EXCEPT ![cur] =
                              Append(@, strip(From(line_in, ItemText(line_in))))]]
        ELSE IF cur = "task" /\ t # ""
        THEN [current |-> cur,
              prompts |-> [p EXCEPT !.task = strip(p.task) \o " " \o t]]
        ELSE [current |-> cur, prompts |-> p]

\* Faulty variant of FenceStep: the text of a watch or after key line is
\* put in front of the list.
FenceStepPrepend(p, cur, raw) ==
    LET line_in == rstrip(raw)
        t == strip(line_in)
        key == PromptKey(t)
        rest == PromptRest(t)
    IN  IF key # ""
        THEN [current |-> key,
              prompts |-> IF key = "task" THEN [p EXCEPT !.task = rest]
                          ELSE IF rest # "" THEN [p EXCEPT ![key] = <<rest>> \o @]
                          ELSE p]
        ELSE IF cur \in {"watch", "after"} /\ ItemText(line_in) # 0
        THEN [current |-> cur,
              prompts |-> [p EXCEPT ![cur] =
                              Append(@, strip(From(line_in, ItemText(line_in))))]]
        ELSE IF cur = "task" /\ t # ""
        THEN LET task == strip(p.task)
                 joiner == IF task # "" THEN " " ELSE ""
             IN  [current |-> cur,
                  prompts |-> [p EXCEPT !.task = task \o joiner \o t]]
        ELSE [current |-> cur, prompts |-> p]

\* The prompt bundle and the current section after one line of the block.
FenceStep(p, cur, raw) ==
    LET line_in == rstrip(raw)
        t == strip(line_in)
        key == PromptKey(t)
        rest == PromptRest(t)
    IN  IF key # ""
        THEN [current |-> key,
              prompts |-> IF key = "task" THEN [p EXCEPT !.task = rest]
                          ELSE IF rest # "" THEN [p EXCEPT ![key] = Append(@, rest)]
                          ELSE p]
        ELSE IF cur \in {"watch", "after"} /\ ItemText(line_in) # 0
        THEN [current |-> cur,
              prompts |-> [p EXCEPT ![cur] =
                              Append(@, strip(From(line_in, ItemText(line_in))))]]
        ELSE IF cur = "task" /\ t # ""
        THEN LET task == strip(p.task)
                 joiner == IF task # "" THEN " " ELSE ""
             IN  [current |-> cur,
                  prompts |-> [p EXCEPT !.task = task \o joiner \o t]]
        ELSE [current |-> cur, prompts |-> p]

\* One iteration of the inner loop that does not break.
FenceLine ==
    /\ pc = "md_fence"
    /\ i < Len(lines)
    /\ ~IsFenceEnd(Line)
    /\ LET r == FenceStep(prompts, current, Line)
       IN  prompts' = r.prompts /\ current' = r.current
    /\ i' = i + 1
    /\ UNCHANGED <<lines, resources, out, in_ul, in_ol, in_bq, in_teacher, rid,
                   pc, prev, ret, bookmarkVars, inlineVars>>

\* Faulty variant of FenceEnd: the closing fence is left for the next
\* outer iteration.
FenceEndKeepsCloser ==
    /\ pc = "md_fence"
    /\ IF i < Len(lines) THEN IsFenceEnd(Line) ELSE TRUE
    /\ out' = Append(out, "<div class='video-stack'>"
                          \o video_block(rid, resources)
                          \o local_prompts_block(prompts, resources)
                          \o "</div>")
    /\ pc' = "md_loop"
    /\ UNCHANGED <<lines, resources, i, in_ul, in_ol, in_bq, in_teacher, fenceVars,
                   prev, ret, bookmarkVars, inlineVars>>

\* The inner loop ends (break at the closing fence, or end of input): the
\* combined fragment is emitted and the closing fence is skipped.
FenceEnd ==
    /\ pc = "md_fence"
    /\ IF i < Len(lines) THEN IsFenceEnd(Line) ELSE TRUE
    /\ out' = Append(out, "<div class='video-stack'>"
                          \o video_block(rid, resources)
                          \o local_prompts_block(prompts, resources)
                          \o "</div>")
    /\ i' = IF i < Len(lines) /\ IsFenceEnd(Line) THEN i + 1 ELSE i
    /\ pc' = "md_loop"
    /\ UNCHANGED <<lines, resources, in_ul, in_ol, in_bq, in_teacher, fenceVars,
                   prev, ret, bookmarkVars, inlineVars>>

\* if mvid
VideoRef ==
    /\ InLoop("video")
    /\ LET s == close_bq(close_lists(Locals))
       IN  Store([s EXCEPT !.out =
                     Append(@, video_block(VideoRefId(strip(Line)), resources))])
    /\ i' = i + 1
    /\ prev' = Snapshot
    /\ UNCHANGED <<lines, resources, in_teacher, fenceVars, pc, ret,
                   bookmarkVars, inlineVars>>

\* if not line.strip()
Blank ==
    /\ InLoop("blank")
    /\ Store(close_bq(close_lists(Locals)))
    /\ i' = i + 1
    /\ prev' = Snapshot
    /\ UNCHANGED <<lines, resources, in_teacher, fenceVars, pc, ret,
                   bookmarkVars, inlineVars>>

\* if mh
Heading ==
    /\ InLoop("heading")
    /\ LET s == close_bq(close_lists(Locals))
           t == strip(Line)
           level == Str(HeadingLevel(t))
           title == html_escape(strip(HeadingText(t)))
           cls == IF HeadingLevel(t) # 1 THEN "" ELSE " class=\"doc-title\""
       IN  Store([s EXCEPT !.out =
                     Append(@, "<h" \o level \o cls \o ">" \o title
                               \o "</h" \o level \o ">")])
    /\ i' = i + 1
    /\ prev' = Snapshot
    /\ UNCHANGED <<lines, resources, in_teacher, fenceVars, pc, ret,
                   bookmarkVars, inlineVars>>

\* Faulty variant of Blockquote: the open lists are left open.
BlockquoteKeepsLists ==
    /\ InLoop("blockquote")
    /\ LET s == Locals
           s1 == IF ~s.in_bq
                 THEN [s EXCEPT !.out = Append(@, "<blockquote>"), !.in_bq = TRUE]
                 ELSE s
           txt == Inline(lstrip(From(lstrip(Line), 2)), resources)
       IN  Store([s1 EXCEPT !.out = Append(@, "<p>" \o txt \o "</p>")])
    /\ i' = i + 1
    /\ prev' = Snapshot
    /\ UNCHANGED <<lines, resources, in_teacher, fenceVars, pc, ret,
                   bookmarkVars, inlineVars>>

\* Faulty variant of Blockquote: the wrapper is opened for every line.
BlockquoteOpensAgain ==
    /\ InLoop("blockquote")
    /\ LET s == close_lists(Locals)
           s1 == [s EXCEPT !.out = Append(@, "<blockquote>"), !.in_bq = TRUE]
           txt == Inline(lstrip(From(lstrip(Line), 2)), resources)
       IN  Store([s1 EXCEPT !.out = Append(@, "<p>" \o txt \o "</p>")])
    /\ i' = i + 1
    /\ prev' = Snapshot
    /\ UNCHANGED <<lines, resources, in_teacher, fenceVars, pc, ret,
                   bookmarkVars, inlineVars>>

\* if line.lstrip().startswith(">")
Blockquote ==
    /\ InLoop("blockquote")
    /\ LET s == close_lists(Locals)
           s1 == IF ~s.in_bq
                 THEN [s EXCEPT !.out = Append(@, "<blockquote>"), !.in_bq = TRUE]
                 ELSE s
           txt == Inline(lstrip(From(lstrip(Line), 2)), resources)
       IN  Store([s1 EXCEPT !.out = Append(@, "<p>" \o txt \o "</p>")])
    /\ i' = i + 1
    /\ prev' = Snapshot
    /\ UNCHANGED <<lines, resources, in_teacher, fenceVars, pc, ret,
                   bookmarkVars, inlineVars>>


\* Faulty variant of OrderedItem: the open unordered list is left open.
OrderedItemKeepsUl ==
    /\ InLoop("ol")
    /\ LET s == close_bq(Locals)
           s2 == IF ~s.in_ol
                 THEN [s EXCEPT !.out = Append(@, "<ol>"), !.in_ol = TRUE] ELSE s
           t == strip(Line)
           txt == Inline(strip(From(t, OlText(t))), resources)
       IN  Store([s2 EXCEPT !.out = Append(@, "<li>" \o txt \o "</li>")])
    /\ i' = i + 1
    /\ prev' = Snapshot
    /\ UNCHANGED <<lines, resources, in_teacher, fenceVars, pc, ret,
                   bookmarkVars, inlineVars>>

\* else: close_bq(); if mol
OrderedItem ==
    /\ InLoop("ol")
    /\ LET s == close_bq(Locals)
           s1 == IF s.in_ul
                 THEN [s EXCEPT !.out = Append(@, "</ul>"), !.in_ul = FALSE] ELSE s
           s2 == IF ~s1.in_ol
                 THEN [s1 EXCEPT !.out = Append(@, "<ol>"), !.in_ol = TRUE] ELSE s1
           t == strip(Line)
           txt == Inline(strip(From(t, OlText(t))), resources)
       IN  Store([s2 EXCEPT !.out = Append(@, "<li>" \o txt \o "</li>")])
    /\ i' = i + 1
    /\ prev' = Snapshot
    /\ UNCHANGED <<lines, resources, in_teacher, fenceVars, pc, ret,
                   bookmarkVars, inlineVars>>


\* Faulty variant of UnorderedItem: the two tests in the other order, so
\* the new list is opened before the open ordered list is closed.
UnorderedItemOpensFirst ==
    /\ InLoop("ul")
    /\ LET s == close_bq(Locals)
           s1 == IF ~s.in_ul
                 THEN [s EXCEPT !.out = Append(@, "<ul>"), !.in_ul = TRUE] ELSE s
           s2 == IF s1.in_ol
                 THEN [s1 EXCEPT !.out = Append(@, "</ol>"), !.in_ol = FALSE] ELSE s1
           t == strip(Line)
           txt == Inline(strip(From(t, UlText(t))), resources)
       IN  Store([s2 EXCEPT !.out = Append(@, "<li>" \o txt \o "</li>")])
    /\ i' = i + 1
    /\ prev' = Snapshot
    /\ UNCHANGED <<lines, resources, in_teacher, fenceVars, pc, ret,
                   bookmarkVars, inlineVars>>

\* else: close_bq(); if mul
UnorderedItem ==
    /\ InLoop("ul")
    /\ LET s == close_bq(Locals)
           s1 == IF s.in_ol
                 THEN [s EXCEPT !.out = Append(@, "</ol>"), !.in_ol = FALSE] ELSE s
           s2 == IF ~s1.in_ul
                 THEN [s1 EXCEPT !.out = Append(@, "<ul>"), !.in_ul = TRUE] ELSE s1
           t == strip(Line)
           txt == Inline(strip(From(t, UlText(t))), resources)
       IN  Store([s2 EXCEPT !.out = Append(@, "<li>" \o txt \o "</li>")])
    /\ i' = i + 1
    /\ prev' = Snapshot
    /\ UNCHANGED <<lines, resources, in_teacher, fenceVars, pc, ret,
                   bookmarkVars, inlineVars>>

\* Faulty variant of Paragraph: a line that begins with @ is passed over
\* once the open list or quotation is closed.
ParagraphSkipsAt ==
    /\ InLoop("paragraph")
    /\ LET s == close_lists(close_bq(Locals))
           txt == Inline(strip(Line), resources)
       IN  Store(IF startswith(strip(Line), "@") THEN s
                 ELSE [s EXCEPT !.out = Append(@, "<p>" \o txt \o "</p>")])
    /\ i' = i + 1
    /\ prev' = Snapshot
    /\ UNCHANGED <<lines, resources, in_teacher, fenceVars, pc, ret,
                   bookmarkVars, inlineVars>>

\* else: close_bq(); no list pattern matched: a paragraph
Paragraph ==
    /\ InLoop("paragraph")
    /\ LET s == close_lists(close_bq(Locals))
           txt == Inline(strip(Line), resources)
       IN  Store([s EXCEPT !.out = Append(@, "<p>" \o txt \o "</p>")])
    /\ i' = i + 1
    /\ prev' = Snapshot
    /\ UNCHANGED <<lines, resources, in_teacher, fenceVars, pc, ret,
                   bookmarkVars, inlineVars>>

\* After the loop: close_lists(); close_bq(); the teacher wrapper; return.
Finish ==
    /\ pc = "md_loop"
    /\ i >= Len(lines)
    /\ LET s == close_bq(close_lists(Locals))
           s1 == IF in_teacher
                 THEN [s EXCEPT !.out = Append(@, TeacherCloseTag)] ELSE s
       IN  Store(s1) /\ ret' = Join("\n", s1.out)
    /\ pc' = "md_done"
    /\ prev' = Snapshot
    /\ UNCHANGED <<lines, resources, i, in_teacher, fenceVars, bookmarkVars,
                   inlineVars>>

-----------------------------------------------------------------------------
(* The documents md_to_html is run on.                                     *)

RenderLines ==
    {":::teacher", ":::", Fence \o "video v1", Fence, "{{video:zz}}", "",
     "## T", "> q", "1. b", "- a", "p", "task: t"}

Docs == UNION {[1..n -> RenderLines] : n \in 0..MaxLines}

RenderResources ==
    ("v1" :> [type |-> "video", label |-> "Intro",
              url |-> "https://youtu.be/XYZ", desc |-> ""])
    @@ ("l1" :> [type |-> "link", label |-> "", url |-> "https://example.com",
                 desc |-> ""])

NoPrompts == [task |-> "", watch |-> <<>>, after |-> <<>>]
NoItem0 == [type |-> "", label |-> "", url |-> "", desc |-> ""]
NoParts == [pre |-> "", tok |-> "", post |-> ""]
NoPrev == [i |-> -1, n |-> 0, in_ul |-> FALSE, in_ol |-> FALSE,
           in_bq |-> FALSE, in_teacher |-> FALSE]

Init ==
    /\ lines \in Docs
    /\ resources = RenderResources
    /\ i = 0
    /\ out = <<>>
    /\ in_ul = FALSE /\ in_ol = FALSE /\ in_bq = FALSE /\ in_teacher = FALSE
    /\ rid = "" /\ prompts = NoPrompts /\ current = ""
    /\ item = NoItem0
    /\ pc = "md_loop"
    /\ prev = NoPrev
    /\ ret = ""
    /\ text = "" /\ parts = NoParts

Next ==
    \/ TeacherOpen \/ TeacherClose
    \/ FenceOpen \/ FenceLine \/ FenceEnd
    \/ VideoRef \/ Blank \/ Heading \/ Blockquote
    \/ OrderedItem \/ UnorderedItem \/ Paragraph
    \/ Finish

Spec == Init /\ [][Next]_vars

-----------------------------------------------------------------------------
(* parse_bookmarks.                                                        *)

\* ^@(video|link)\s+ : the kind, "" when no match.
DeclKind(line) ==
    IF startswith(line, "@video") /\ Ch(line, 7) \in White THEN "video"
    ELSE IF startswith(line, "@link") /\ Ch(line, 6) \in White THEN "link"
    ELSE ""

\* ^@(video|link)\s+([a-zA-Z0-9_\-]+)\s*$ : the id, "" when no match.
DeclId(line) ==
    LET n == Len(DeclKind(line)) + 1
        w == RunEnd(line, n + 1, White)
        e == RunEnd(line, w + 1, IdChars)
    IN  IF DeclKind(line) # "" /\ e >= w + 1 /\ RunEnd(line, e + 1, White) = Len(line)
        THEN Sub(line, w + 1, e) ELSE ""

\* ^(label|url|desc)\s*:\s*(.+)\s*$ : the key, "" when no match.
KvKey(line) ==
    LET keys == {k \in {"label", "url", "desc"} :
                    /\ startswith(line, k)
                    /\ Ch(line, RunEnd(line, Len(k) + 1, White) + 1) = ":"
                    /\ RunEnd(line, Len(k) + 1, White) + 1 < Len(line)}
    IN  IF keys = {} THEN "" ELSE CHOOSE k \in keys : TRUE

\* kv.group(2).strip()
KvValue(line) ==
    strip(From(line, RunEnd(line, Len(KvKey(line)) + 1, White) + 2))

EmptyMap == [k \in {} |-> [type |-> "", label |-> "", url |-> "", desc |-> ""]]

\* resources[rid] = item
Put(res, r, it) == [k \in DOMAIN res \cup {r} |-> IF k = r THEN it ELSE res[k]]

renderVars == <<out, in_ul, in_ol, in_bq, in_teacher, prompts, current, prev>>

\* Faulty variant of PbSkip: the loop continues without advancing.
PbSkipStays ==
    /\ pc = "pb_outer"
    /\ i < Len(lines)
    /\ DeclId(rstrip(Line)) = ""
    /\ UNCHANGED <<lines, resources, i, rid, item, pc, ret, renderVars, inlineVars>>

\* Outer loop, "if not m": the line is no declaration.
PbSkip ==
    /\ pc = "pb_outer"
    /\ i < Len(lines)
    /\ DeclId(rstrip(Line)) = ""
    /\ i' = i + 1
    /\ UNCHANGED <<lines, resources, rid, item, pc, ret, renderVars, inlineVars>>


\* Faulty variant of PbDeclare: an id declared before starts from its
\* stored entry instead of the empty defaults.
PbDeclareCarryOver ==
    /\ pc = "pb_outer"
    /\ i < Len(lines)
    /\ DeclId(rstrip(Line)) # ""
    /\ rid' = DeclId(rstrip(Line))
    /\ item' = IF DeclId(rstrip(Line)) \in DOMAIN resources
               THEN [resources[DeclId(rstrip(Line))]
                        EXCEPT !.type = DeclKind(rstrip(Line))]
               ELSE [type |-> DeclKind(rstrip(Line)), label |-> "", url |-> "",
                     desc |-> ""]
    /\ i' = i + 1
    /\ pc' = "pb_inner"
    /\ UNCHANGED <<lines, resources, ret, renderVars, inlineVars>>

\* Outer loop, a declaration: a fresh item; the inner loop runs next.
PbDeclare ==
    /\ pc = "pb_outer"
    /\ i < Len(lines)
    /\ DeclId(rstrip(Line)) # ""
    /\ rid' = DeclId(rstrip(Line))
    /\ item' = [type |-> DeclKind(rstrip(Line)), label |-> "", url |-> "", desc |-> ""]
    /\ i' = i + 1
    /\ pc' = "pb_inner"
    /\ UNCHANGED <<lines, resources, ret, renderVars, inlineVars>>

\* Inner loop, an iteration that does not break: a key line sets its field,
\* any other line is passed over.
PbAttr ==
    /\ pc = "pb_inner"
    /\ i < Len(lines)
    /\ DeclKind(rstrip(Line)) = ""
    /\ item' = IF KvKey(rstrip(Line)) # ""
               THEN [item EXCEPT ![KvKey(rstrip(Line))] = KvValue(rstrip(Line))]
               ELSE item
    /\ i' = i + 1
    /\ UNCHANGED <<lines, resources, rid, pc, ret, renderVars, inlineVars>>

\* The inner loop ends (break, or end of input): resources[rid] = item.
PbStore ==
    /\ pc = "pb_inner"
    /\ IF i < Len(lines) THEN DeclKind(rstrip(Line)) # "" ELSE TRUE
    /\ resources' = Put(resources, rid, item)
    /\ pc' = "pb_outer"
    /\ UNCHANGED <<lines, i, rid, item, ret, renderVars, inlineVars>>

\* return resources
PbReturn ==
    /\ pc = "pb_outer"
    /\ i >= Len(lines)
    /\ pc' = "pb_done"
    /\ UNCHANGED <<lines, resources, i, rid, item, ret, renderVars, inlineVars>>

BmLines ==
    {"@video a", "@link a", "@video b", "label: L", "url: u", "desc: d",
     "  url: w", "@video a b", "junk"}

BmDocs == UNION {[1..n -> BmLines] : n \in 0..MaxBmLines}

InitBookmarks ==
    /\ lines \in BmDocs
    /\ resources = EmptyMap
    /\ i = 0
    /\ out = <<>>
    /\ in_ul = FALSE /\ in_ol = FALSE /\ in_bq = FALSE /\ in_teacher = FALSE
    /\ rid = "" /\ prompts = NoPrompts /\ current = ""
    /\ item = NoItem0
    /\ pc = "pb_outer"
    /\ prev = NoPrev
    /\ ret = ""
    /\ text = "" /\ parts = NoParts

NextBookmarks == PbSkip \/ PbDeclare \/ PbAttr \/ PbStore \/ PbReturn

SpecBookmarks == InitBookmarks /\ [][NextBookmarks]_vars

-----------------------------------------------------------------------------
(* The inline functions and video_block called on their own: the caller    *)
(* holds the arguments (text, rid, resources) and one call returns.        *)

CallInlineFormat ==
    /\ pc = "call_text"
    /\ ret' = inline_format(text)
    /\ pc' = "inline_format"
    /\ UNCHANGED <<lines, resources, i, rid, item, text, parts, renderVars>>

CallExpandInlineRefs ==
    /\ pc = "call_text"
    /\ ret' = expand_inline_refs(text, resources)
    /\ pc' = "expand_inline_refs"
    /\ UNCHANGED <<lines, resources, i, rid, item, text, parts, renderVars>>

\* inline_format(expand_inline_refs(text, resources)): build.py 94, 106,
\* 119, 314, 328, 340, 346.
CallInline ==
    /\ pc = "call_text"
    /\ ret' = Inline(text, resources)
    /\ pc' = "inline"
    /\ UNCHANGED <<lines, resources, i, rid, item, text, parts, renderVars>>

CallInlineLink ==
    /\ pc = "call_rid"
    /\ ret' = inline_link(rid, resources)
    /\ pc' = "inline_link"
    /\ UNCHANGED <<lines, resources, i, rid, item, text, parts, renderVars>>

CallVideoBlock ==
    /\ pc = "call_rid"
    /\ ret' = video_block(rid, resources)
    /\ pc' = "video_block"
    /\ UNCHANGED <<lines, resources, i, rid, item, text, parts, renderVars>>

\* The pieces author-written inline text is assembled from.
Pieces ==
    {"a", "/", ">", "<", "&", "\"", "'", "*", Backtick, "<a>", "</a>"}

RECURSIVE Texts(_)
Texts(n) ==
    IF n = 0 THEN {""}
    ELSE Texts(n - 1) \cup {t \o p : t \in Texts(n - 1), p \in Pieces}

\* What follows the assembled pieces: nothing, or a link token and the
\* rest of the line.
TokenTails ==
    {<<"", "">>, <<"{{link:l1}}", " now">>, <<"{{link:zz}}", "">>,
     <<"{{link:l3}}", " & co">>}

\* l1: a url and no label; l2: a url and a label; l3: no url; zz: absent.
InlineResources ==
    ("l1" :> [type |-> "link", label |-> "", url |-> "https://example.com", desc |-> ""])
    @@ ("l2" :> [type |-> "link", label |-> "T&C", url |-> "https://example.com/?a=1&b=2",
                 desc |-> ""])
    @@ ("l3" :> [type |-> "link", label |-> "Lost", url |-> "", desc |-> ""])

\* The pieces a resource url is assembled from: what stands before the
\* video identifier, the identifier, what follows it.
UrlHeads ==
    {"https://youtu.be/", "https://www.youtube.com/watch?v=",
     "https://m.youtube.com/watch?v=", "https://example.com/watch?v=",
     "https://example.com/"}
UrlIds == {"abc123", "a-1_Z"}
UrlTails == {"", "?t=1", "&t=1", "/x", "?u=youtube.com/watch?v=zz9"}

Urls == {""} \cup {h \o x \o t : h \in UrlHeads, x \in UrlIds, t \in UrlTails}

\* What resources.get(rid) can be: a full record as parse_bookmarks builds
\* it, or a dict that lacks keys.
ItemsFor(url) ==
    {[type |-> "video", label |-> l, url |-> url, desc |-> d] :
        l \in {"", "Intro", "a<b"}, d \in {"", "d&e"}}
    \cup {[type |-> "link", url |-> url]}

Rids == {"v1", "zz", "x<y"}

InitText ==
    /\ \E pre \in Texts(MaxPieces), tt \in TokenTails :
          /\ parts = [pre |-> pre, tok |-> tt[1], post |-> tt[2]]
          /\ text = pre \o tt[1] \o tt[2]
    /\ resources = InlineResources
    /\ rid = ""
    /\ pc = "call_text"

InitRid ==
    /\ \E h \in UrlHeads \cup {""}, x \in UrlIds, t \in UrlTails :
          /\ parts = IF h = "" THEN NoParts ELSE [pre |-> h, tok |-> x, post |-> t]
          /\ \E it \in ItemsFor(parts.pre \o parts.tok \o parts.post)
                       \cup {[type |-> "video"], EmptyMap} :
                resources \in {"v1" :> it, EmptyMap}
    /\ rid \in Rids
    /\ text = ""
    /\ pc = "call_rid"

InitInline ==
    /\ InitText \/ InitRid
    /\ lines = <<>>
    /\ i = 0
    /\ out = <<>>
    /\ in_ul = FALSE /\ in_ol = FALSE /\ in_bq = FALSE /\ in_teacher = FALSE
    /\ prompts = NoPrompts /\ current = ""
    /\ item = NoItem0
    /\ prev = NoPrev
    /\ ret = ""

NextInline ==
    \/ CallInlineFormat \/ CallExpandInlineRefs \/ CallInline
    \/ CallInlineLink \/ CallVideoBlock

SpecInline == InitInline /\ [][NextInline]_vars

-----------------------------------------------------------------------------
(* Properties of md_to_html, checked under Spec.  prev holds the locals as *)
(* the last outer iteration (or the code after the loop) found them.       *)

\* The fragments appended since the last outer iteration began.
Emitted == SubSeq(out, prev.n + 1, Len(out))

\* The branch that took the line of the last outer iteration; "" before
\* the first iteration and after the loop.
LastKind ==
    IF prev.i >= 0 /\ prev.i < Len(lines) THEN Dispatch(lines[prev.i + 1]) ELSE ""

\* The closing tags owed for what was open when the iteration began.
ClosersOf(p) ==
    (IF p.in_ul THEN <<"</ul>">> ELSE <<>>)
    \o (IF p.in_ol THEN <<"</ol>">> ELSE <<>>)
    \o (IF p.in_bq THEN <<"</blockquote>">> ELSE <<>>)

\* How many of the first k fragments are one of the given tags.
Count(tags, k) == Cardinality({j \in 1..k : out[j] \in tags})

IsItem(f) == startswith(f, "<li>") /\ From(f, Len(f) - 4) = "</li>"

\* C1: after any prefix of any document in_ul and in_ol are never both
\* true; an ordered item leaves in_ol true and in_ul false, whatever was
\* open before it, and an unordered item leaves in_ul true and in_ol false.
ThmC1 ==
    /\ ~(in_ul /\ in_ol)
    /\ (pc = "md_loop" /\ LastKind = "ol") => (in_ol /\ ~in_ul)
    /\ (pc = "md_loop" /\ LastKind = "ul") => (in_ul /\ ~in_ol)

\* An ordered item has just been processed while the unordered list was open.
WitC1 == pc = "md_loop" /\ LastKind = "ol" /\ prev.in_ul /\ in_ol /\ ~in_ul

\* C2: a list item processed while the list of the other kind is open
\* appends exactly the closing tag of the open list, the opening tag of
\* the new list and the item, in that order; in every prefix of the output
\* at most one list wrapper is open, so the wrappers are siblings; and the
\* document "- a", "1. b" renders as the six fragments of the example.
ThmC2 ==
    /\ (pc = "md_loop" /\ LastKind = "ol" /\ prev.in_ul) =>
          /\ Len(Emitted) = 3
          /\ Emitted[1] = "</ul>" /\ Emitted[2] = "<ol>" /\ IsItem(Emitted[3])
    /\ (pc = "md_loop" /\ LastKind = "ul" /\ prev.in_ol) =>
          /\ Len(Emitted) = 3
          /\ Emitted[1] = "</ol>" /\ Emitted[2] = "<ul>" /\ IsItem(Emitted[3])
    /\ \A k \in 0..Len(out) :
          Count({"<ul>", "<ol>"}, k) - Count({"</ul>", "</ol>"}, k) \in {0, 1}
    /\ (pc = "md_done" /\ lines = <<"- a", "1. b">>) =>
          out = <<"<ul>", "<li>a</li>", "</ul>", "<ol>", "<li>b</li>", "</ol>">>

\* An unordered item has just been processed while the ordered list was open.
WitC2 == pc = "md_loop" /\ LastKind = "ul" /\ prev.in_ol /\ Len(Emitted) = 3

BlockKinds == {"blank", "heading", "teacher", "teacher_end", "video", "fence"}

\* C3: right after a blank line, a heading, a teacher marker, a closing
\* marker, a standalone video reference or a fenced video block, in_ul,
\* in_ol and in_bq are all false, and what the line appended begins with the
\* closing tags of what was open, no closing tag coming after another
\* fragment of the line.
ThmC3 ==
    (pc \in {"md_loop", "md_fence"} /\ LastKind \in BlockKinds) =>
        /\ ~in_ul /\ ~in_ol /\ ~in_bq
        /\ Len(Emitted) >= Len(ClosersOf(prev))
        /\ SubSeq(Emitted, 1, Len(ClosersOf(prev))) = ClosersOf(prev)
        /\ \A k \in (Len(ClosersOf(prev)) + 1)..Len(Emitted) :
              Emitted[k] \notin {"</ul>", "</ol>", "</blockquote>"}

\* A fenced video block has been taken whole while the ordered list was open.
WitC3 ==
    /\ pc = "md_loop" /\ LastKind = "fence" /\ prev.in_ol
    /\ Len(Emitted) = 2 /\ Emitted[1] = "</ol>"

\* Teacher wrappers open after the first k fragments.
TeacherDepth(k) == Count({TeacherOpenTag}, k) - Count({TeacherCloseTag}, k)

TeacherCloserIf(open) == IF open THEN <<TeacherCloseTag>> ELSE <<>>

\* C4: in every prefix of the output at most one teacher wrapper is open,
\* one is open exactly while in_teacher holds, and none is open when
\* md_to_html returns; a closing marker appends the closer (after the
\* closing tags of an open list or blockquote) when the section is open and
\* nothing of its own otherwise; a teacher marker appends the opener when
\* the section is closed and none otherwise; the end of input appends the
\* closer of a still-open section after the closing tags of an open list or
\* blockquote; no other line changes in_teacher.
ThmC4 ==
    /\ \A k \in 0..Len(out) : TeacherDepth(k) \in {0, 1}
    /\ pc \in {"md_loop", "md_fence"} =>
          TeacherDepth(Len(out)) = IF in_teacher THEN 1 ELSE 0
    /\ pc = "md_done" =>
          /\ TeacherDepth(Len(out)) = 0
          /\ Emitted = ClosersOf(prev) \o TeacherCloserIf(prev.in_teacher)
    /\ (pc = "md_loop" /\ LastKind = "teacher_end") =>
          /\ ~in_teacher
          /\ Emitted = ClosersOf(prev) \o TeacherCloserIf(prev.in_teacher)
    /\ (pc = "md_loop" /\ LastKind = "teacher") =>
          /\ in_teacher
          /\ Emitted = ClosersOf(prev)
                       \o (IF prev.in_teacher THEN <<>> ELSE <<TeacherOpenTag>>)
    /\ (pc \in {"md_loop", "md_fence"}
            /\ LastKind \notin {"", "teacher", "teacher_end"}) =>
          in_teacher = prev.in_teacher

\* The input ended inside a teacher section with a list open.
WitC4 ==
    /\ pc = "md_done" /\ prev.in_teacher /\ prev.in_ul
    /\ Emitted = <<"</ul>", TeacherCloseTag>>

-----------------------------------------------------------------------------
(* Properties of video_block and the inline functions, checked under       *)
(* SpecInline.                                                             *)

\* The url of the resource in hand; "" when the id, the record or the key
\* is absent.
UrlOf ==
    IF rid \in DOMAIN resources /\ "url" \in DOMAIN resources[rid]
    THEN resources[rid]["url"] ELSE ""

\* The label of the resource in hand; "" when absent.
LabelOf ==
    IF rid \in DOMAIN resources /\ "label" \in DOMAIN resources[rid]
    THEN resources[rid]["label"] ELSE ""

\* The ids of Rids, HTML-escaped by hand.
EscapedRid == IF rid = "x<y" THEN "x&lt;y" ELSE rid

MissingBookmark(id) ==
    "<div class='video'><div class='video-top'><div class='video-title'>"
    \o "<span class='tag'>Video</span> Missing bookmark: <code>" \o id
    \o "</code></div></div></div>"

MissingLink(id) == "<code>Missing:" \o id \o "</code>"

\* C5: for an id that is absent from the mapping, or whose record has no
\* or an empty url, video_block returns the Missing bookmark fragment and
\* inline_link the Missing indicator, each with the escaped id; and
\* expand_inline_refs puts the indicator in place of the token and keeps
\* the text before and after it.  (Every call returns: none of the
\* operators is undefined on any argument.)
ThmC5 ==
    /\ (pc = "video_block" /\ UrlOf = "") => ret = MissingBookmark(EscapedRid)
    /\ (pc = "inline_link" /\ UrlOf = "") => ret = MissingLink(EscapedRid)
    /\ (pc = "expand_inline_refs" /\ parts.tok = "{{link:zz}}") =>
          ret = parts.pre \o MissingLink("zz") \o parts.post
    /\ (pc = "expand_inline_refs" /\ parts.tok = "{{link:l3}}") =>
          ret = parts.pre \o MissingLink("l3") \o parts.post

\* video_block has returned the Missing bookmark fragment for an id whose
\* record holds an empty url.
WitC5 ==
    /\ pc = "video_block" /\ rid = "v1"
    /\ rid \in DOMAIN resources /\ "url" \in DOMAIN resources[rid]
    /\ resources[rid]["url"] = ""
    /\ ret = MissingBookmark("v1")

ThumbImg(x) ==
    "<img alt='Video thumbnail' src=\"https://i.ytimg.com/vi/" \o x
    \o "/hqdefault.jpg\">"

\* video_block has returned for a resource whose url is the one assembled
\* from parts.
RenderedUrl ==
    /\ pc = "video_block"
    /\ parts.pre # ""
    /\ UrlOf = parts.pre \o parts.tok \o parts.post

YoutubeHeads ==
    {"https://www.youtube.com/watch?v=", "https://m.youtube.com/watch?v="}

\* The identifier the thumbnail is to be built from: that of the first
\* youtube.com/watch?v= of the url when there is one, else that of the
\* first youtu.be/, else none ("").
ExpectedVid ==
    IF parts.pre \in YoutubeHeads THEN parts.tok
    ELSE IF parts.post = "?u=youtube.com/watch?v=zz9" THEN "zz9"
    ELSE IF parts.pre = "https://youtu.be/" THEN parts.tok
    ELSE ""

\* C6 as stated: a url that holds youtu.be/<X> or watch?v=<X>, whatever the
\* host before watch?v=, gets a thumbnail built from such an X.
CexC6 ==
    (RenderedUrl /\ parts.pre # "https://example.com/") =>
        \E x \in {parts.tok, "zz9"} : Contains(ret, ThumbImg(x))

\* C6, amended: the thumbnail is built from the identifier after the
\* first youtube.com/watch?v= of the url when the url has one, otherwise
\* from the identifier after its first youtu.be/, and from no other; a url
\* with neither (a watch?v= on another host included) gets no thumbnail.
ThmC6 ==
    RenderedUrl =>
        /\ \A x \in UrlIds \cup {"zz9"} :
              Contains(ret, ThumbImg(x)) <=> x = ExpectedVid
        /\ ExpectedVid = "" => ~Contains(ret, "<img")

\* A youtu.be/ url that carries a youtube.com/watch?v= in its query: the
\* thumbnail is the one of the latter.
WitC6 ==
    /\ RenderedUrl
    /\ parts.pre = "https://youtu.be/"
    /\ parts.post = "?u=youtube.com/watch?v=zz9"
    /\ Contains(ret, ThumbImg("zz9"))

NoMarkers(t) == Chars(t) \cap {"*", Backtick} = {}

DefaultLink ==
    "<a href=\"https://example.com\" target=\"_blank\" rel=\"noreferrer\">Link</a>"

\* C7 as stated: a resource with a url and no label renders as "Link" by
\* the inline expansion, the text around the token kept in order and
\* escaped, and as "Video" by video_block, each linking to the url.
CexC7 ==
    /\ (pc = "inline" /\ parts.tok = "{{link:l1}}"
            /\ NoMarkers(parts.pre \o parts.post)) =>
          ret = html_escape(parts.pre) \o DefaultLink \o html_escape(parts.post)
    /\ (pc = "video_block" /\ UrlOf # "" /\ LabelOf = "") =>
          Contains(ret, "<a href=\"" \o html_escape(UrlOf)
                        \o "\" target=\"_blank\" rel=\"noreferrer\">"
                        \o "<strong>Video</strong></a>")

CleanChars(t, excluded) == Chars(t) \cap excluded = {}

\* C8 as stated: a string without backtick, asterisk, <, &, double and
\* single quote comes back unchanged, a > in it included.
CexC8 ==
    (pc = "inline_format"
        /\ CleanChars(text, {Backtick, "*", "<", "&", "\"", "'"})) =>
        ret = text

\* C8, amended: a string without backtick, asterisk, <, >, &, double and
\* single quote comes back unchanged.
ThmC8 ==
    (pc = "inline_format"
        /\ CleanChars(text, {Backtick, "*", "<", ">", "&", "\"", "'"})) =>
        ret = text

\* inline_format has returned a slash-separated string with a raw token.
WitC8 ==
    /\ pc = "inline_format" /\ parts.pre = "a/a" /\ parts.tok = "{{link:l1}}"
    /\ ret = "a/a{{link:l1}} now"

\* C9 as stated: every < and & the author wrote comes out escaped once,
\* literal anchor markup included; on a text without token and without
\* emphasis marker that is the whole text, escaped.
CexC9 ==
    (pc = "inline" /\ parts.tok = "" /\ NoMarkers(text)) =>
        ret = html_escape(text)

-----------------------------------------------------------------------------
(* Properties of parse_bookmarks, checked under SpecBookmarks.             *)

\* The id line k declares; "" when line k is no declaration.
DeclAt(k) == DeclId(rstrip(lines[k]))

DeclaredIds == {DeclAt(k) : k \in 1..Len(lines)} \ {""}

\* The last line that declares r.
LastDecl(r) == Max({k \in 1..Len(lines) : DeclAt(k) = r})

\* The last line of the block of the declaration at line k: the line
\* before the next line that begins a declaration, or the last line.
BlockEnd(k) ==
    Min({j \in (k + 1)..Len(lines) : DeclKind(rstrip(lines[j])) # ""}
        \cup {Len(lines) + 1}) - 1

\* The value the block of the declaration at line k sets for the key: that
\* of its last line for the key; "" when it has none.
BlockValue(k, key) ==
    LET hits == {j \in (k + 1)..BlockEnd(k) : KvKey(rstrip(lines[j])) = key}
    IN  IF hits = {} THEN "" ELSE KvValue(rstrip(lines[Max(hits)]))

\* C10: when parse_bookmarks returns, the entry of every declared id is
\* what its last declaration alone makes of it: the kind of that
\* declaration, and for label, url and desc the value set in the block of
\* that declaration, empty when the block sets none, whatever an earlier
\* declaration of the id had set.
ThmC10 ==
    pc = "pb_done" =>
        /\ DOMAIN resources = DeclaredIds
        /\ \A r \in DeclaredIds :
              resources[r] =
                  [type |-> DeclKind(rstrip(lines[LastDecl(r)])),
                   label |-> BlockValue(LastDecl(r), "label"),
                   url |-> BlockValue(LastDecl(r), "url"),
                   desc |-> BlockValue(LastDecl(r), "desc")]

\* An id declared twice, the first declaration with a label, the second of
\* the other kind and with a url only.
WitC10 ==
    /\ pc = "pb_done"
    /\ lines = <<"@video a", "label: L", "@link a", "url: u">>
    /\ resources["a"] = [type |-> "link", label |-> "", url |-> "u", desc |-> ""]

-----------------------------------------------------------------------------
(* md_to_html on documents built around one fenced video block: what may   *)
(* stand before the opener, the opener, and the lines that follow it (the  *)
(* closing fence, if any, among them).                                     *)

FenceOpener == Fence \o "video v1"

FenceBody ==
    {"task: Read the poem", "task:", "watch:", "- tone", "after: recap",
     "aloud", "", "watch: pace", ":::teacher", "## T", "{{video:zz}}", Fence}

FencePrefixes == {<<>>, <<":::teacher">>}

FenceDocs ==
    {pre \o <<FenceOpener>> \o body :
        pre \in FencePrefixes,
        body \in UNION {[1..n -> FenceBody] : n \in 0..MaxFenceLines}}

InitFence ==
    /\ lines \in FenceDocs
    /\ resources = RenderResources
    /\ i = 0
    /\ out = <<>>
    /\ in_ul = FALSE /\ in_ol = FALSE /\ in_bq = FALSE /\ in_teacher = FALSE
    /\ rid = "" /\ prompts = NoPrompts /\ current = ""
    /\ item = NoItem0
    /\ pc = "md_loop"
    /\ prev = NoPrev
    /\ ret = ""
    /\ text = "" /\ parts = NoParts

\* The branches these documents can reach.
NextFence ==
    \/ TeacherOpen
    \/ FenceOpen \/ FenceLine \/ FenceEnd
    \/ VideoRef \/ Blank \/ Heading
    \/ UnorderedItem \/ Paragraph
    \/ Finish

SpecFence == InitFence /\ [][NextFence]_vars

-----------------------------------------------------------------------------
(* Properties of the fenced video block, checked under SpecFence.  The     *)
(* reference below reads the lines of FenceBody by what they are, without  *)
(* the patterns of the code.                                               *)

\* The first line after the opener of the block in hand, and the closing
\* fence of the block: the first line from there on that is a fence, the
\* line after the last when there is none (1-based).
BlockStart == prev.i + 2

BlockStop ==
    Min({j \in BlockStart..Len(lines) : lines[j] = Fence} \cup {Len(lines) + 1})

\* The key a body line declares, "" for a line that is no key line.
RefKey(l) ==
    IF l \in {"task: Read the poem", "task:"} THEN "task"
    ELSE IF l \in {"watch:", "watch: pace"} THEN "watch"
    ELSE IF l = "after: recap" THEN "after"
    ELSE ""

\* The trimmed text a key line or an item line carries.
RefText(l) ==
    IF l = "task: Read the poem" THEN "Read the poem"
    ELSE IF l = "watch: pace" THEN "pace"
    ELSE IF l = "after: recap" THEN "recap"
    ELSE IF l = "- tone" THEN "tone"
    ELSE ""

\* One step of the reference fold: bundle b (prompts and current section)
\* after line l.
RefStep(b, l) ==
    IF RefKey(l) = "task"
    THEN [current |-> "task", prompts |-> [b.prompts EXCEPT !.task = RefText(l)]]
    ELSE IF RefKey(l) # ""
    THEN [current |-> RefKey(l),
          prompts |-> IF RefText(l) # ""
                      THEN [b.prompts EXCEPT ![RefKey(l)] = Append(@, RefText(l))]
                      ELSE b.prompts]
    ELSE IF b.current = "task" /\ l # ""
    THEN [current |-> "task",
          prompts |-> [b.prompts EXCEPT
                          !.task = IF @ = "" THEN l ELSE @ \o " " \o l]]
    ELSE IF b.current \in {"watch", "after"} /\ l = "- tone"
    THEN [current |-> b.current,
          prompts |-> [b.prompts EXCEPT ![b.current] = Append(@, "tone")]]
    ELSE b

\* The reference fold over the lines BlockStart..k of the document.
RECURSIVE RefFold(_)
RefFold(k) ==
    IF k < BlockStart THEN [current |-> "", prompts |-> NoPrompts]
    ELSE RefStep(RefFold(k - 1), lines[k])

RECURSIVE RefItems(_)
RefItems(list) ==
    IF list = <<>> THEN ""
    ELSE "<li>" \o Head(list) \o "</li>" \o RefItems(Tail(list))

RefSections(p) ==
    (IF p.task # ""
     THEN "<div class='prompt-section'><div class='prompt-title'>Task</div><p>"
          \o p.task \o "</p></div>"
     ELSE "")
    \o (IF p.watch # <<>>
        THEN "<div class='prompt-section'><div class='prompt-title'>Watch for</div><ul>"
             \o RefItems(p.watch) \o "</ul></div>"
        ELSE "")
    \o (IF p.after # <<>>
        THEN "<div class='prompt-section'>"
             \o "<div class='prompt-title'>After watching</div><ul>"
             \o RefItems(p.after) \o "</ul></div>"
        ELSE "")

\* The local prompts of a bundle, as the page is to show them.
RefPrompts(p) ==
    IF RefSections(p) = "" THEN ""
    ELSE "<div class='local-prompts'>"
         \o "<div class='local-prompts-title'>Local prompts</div>"
         \o RefSections(p) \o "</div>"

EndsWith(t, suffix) ==
    Len(t) >= Len(suffix) /\ From(t, Len(t) - Len(suffix) + 1) = suffix

\* The fenced block has just been emitted.
AfterBlock == pc = "md_loop" /\ LastKind = "fence"

\* C11: while the block is read the prompt bundle and the current section
\* are those of the reference fold over the lines read so far; when the
\* block ends the bundle is the fold over all its lines, and the fragment
\* emitted closes with the prompts of that bundle: Task, Watch for, After
\* watching, each only if it is not empty.  The block "task: Read the
\* poem", "watch:", "- tone" shows the Task "Read the poem" and the one
\* item "tone" to watch for.
ThmC11 ==
    /\ pc = "md_fence" =>
          /\ prompts = RefFold(i).prompts
          /\ current = RefFold(i).current
    /\ AfterBlock =>
          /\ prompts = RefFold(BlockStop - 1).prompts
          /\ EndsWith(out[Len(out)], RefPrompts(prompts) \o "</div>")
    /\ (AfterBlock /\ BlockStop = BlockStart + 3
            /\ SubSeq(lines, BlockStart, BlockStart + 2)
                   = <<"task: Read the poem", "watch:", "- tone">>) =>
          EndsWith(out[Len(out)],
              "<div class='local-prompts-title'>Local prompts</div>"
              \o "<div class='prompt-section'><div class='prompt-title'>Task</div>"
              \o "<p>Read the poem</p></div>"
              \o "<div class='prompt-section'>"
              \o "<div class='prompt-title'>Watch for</div>"
              \o "<ul><li>tone</li></ul></div></div></div>")

\* A block whose empty task line is followed by two continuation lines
\* has been emitted.
WitC11 ==
    /\ AfterBlock
    /\ SubSeq(lines, BlockStart, BlockStop - 1) = <<"task:", "aloud", "- tone">>
    /\ prompts.task = "aloud - tone"

\* The opener of the document (1-based) and its closing fence, the line
\* after the last when there is none.
OpenerPos == CHOOSE j \in 1..Len(lines) : lines[j] = FenceOpener

ClosePos ==
    Min({j \in (OpenerPos + 1)..Len(lines) : lines[j] = Fence}
        \cup {Len(lines) + 1})

IsCombined(f) == startswith(f, "<div class='video-stack'>")

\* C12: from the opener on, every line up to and including the first
\* closing fence (or up to the end of input) is taken by the block: while
\* the block is read nothing is emitted beyond the closing tags the opener
\* owed, the list and blockquote flags stay false and in_teacher stays
\* what it was; when the block ends exactly one combined fragment has been
\* appended and the index stands on the line after the closing fence; no
\* outer iteration ever begins on a line of the block or on its closing
\* fence; and the whole document yields exactly one combined fragment.
ThmC12 ==
    /\ pc = "md_fence" =>
          /\ ~in_ul /\ ~in_ol /\ ~in_bq
          /\ in_teacher = prev.in_teacher
          /\ Emitted = ClosersOf(prev)
          /\ i >= OpenerPos /\ i < ClosePos
    /\ AfterBlock =>
          /\ ~in_ul /\ ~in_ol /\ ~in_bq
          /\ in_teacher = prev.in_teacher
          /\ Len(Emitted) = Len(ClosersOf(prev)) + 1
          /\ SubSeq(Emitted, 1, Len(ClosersOf(prev))) = ClosersOf(prev)
          /\ IsCombined(Emitted[Len(Emitted)])
          /\ i = IF ClosePos <= Len(lines) THEN ClosePos ELSE Len(lines)
    /\ (prev.i >= 0 /\ prev.i < Len(lines)) =>
          ~(prev.i + 1 > OpenerPos /\ prev.i + 1 <= ClosePos)
    /\ pc = "md_done" =>
          Cardinality({j \in 1..Len(out) : IsCombined(out[j])}) = 1

\* A block that holds a teacher marker and is closed before the last
\* line has been emitted, the teacher section not open.
WitC12 ==
    /\ AfterBlock
    /\ ~in_teacher
    /\ \E j \in (OpenerPos + 1)..(ClosePos - 1) : lines[j] = ":::teacher"
    /\ ClosePos < Len(lines)
    /\ i = ClosePos

-----------------------------------------------------------------------------
(* Both passes of main, each on its own document, run to their end: the    *)
(* program is sequential, so a loop that can take its next step takes it.  *)

MaxTermLines == 2

TermBmDocs == UNION {[1..n -> BmLines] : n \in 0..MaxTermLines}

TermDocs == UNION {[1..n -> RenderLines] : n \in 0..MaxTermLines}

\* main before it has read the source.
InitTerm ==
    /\ lines = <<>>
    /\ resources = EmptyMap
    /\ i = 0
    /\ out = <<>>
    /\ in_ul = FALSE /\ in_ol = FALSE /\ in_bq = FALSE /\ in_teacher = FALSE
    /\ rid = "" /\ prompts = NoPrompts /\ current = ""
    /\ item = NoItem0
    /\ pc = "main"
    /\ prev = NoPrev
    /\ ret = ""
    /\ text = "" /\ parts = NoParts

\* md = SOURCE.read_text(...); parse_bookmarks(md) is entered.
CallParseBookmarks ==
    /\ pc = "main"
    /\ lines' \in TermBmDocs
    /\ pc' = "pb_outer"
    /\ UNCHANGED <<resources, i, rid, item, ret, renderVars, inlineVars>>

\* md_to_html(md, resources) is entered.
CallMdToHtml ==
    /\ pc = "main"
    /\ lines' \in TermDocs
    /\ resources' = RenderResources
    /\ pc' = "md_loop"
    /\ UNCHANGED <<i, rid, item, ret, renderVars, inlineVars>>

NextTerm == CallParseBookmarks \/ CallMdToHtml \/ Next \/ NextBookmarks

SpecTerm == InitTerm /\ [][NextTerm]_vars /\ WF_vars(NextTerm)

\* How far the loop that runs is from the code after it, the index apart.
Rank(p) == IF p \in {"md_fence", "pb_inner"} THEN 2
           ELSE IF p \in {"md_loop", "pb_outer"} THEN 1 ELSE 0

Returned == pc \in {"md_done", "pb_done"}

\* A step either consumes one line or, the index standing, leaves a loop;
\* an iteration of the outer loop of parse_bookmarks consumes its line,
\* declaration or not.
StepsForward ==
    pc # "main" =>
    /\ i' = i + 1 \/ (i' = i /\ Rank(pc') < Rank(pc))
    /\ (pc = "pb_outer" /\ pc' # "pb_done") => i' = i + 1
    /\ i' <= Len(lines)

\* A fenced block without closing fence has been emitted.
UnclosedEmitted ==
    /\ pc = "md_loop" /\ LastKind = "fence"
    /\ \A j \in (prev.i + 2)..Len(lines) : lines[j] \notin {Fence, Fence \o "video v1"}

\* C13: parse_bookmarks and md_to_html return on every document; every
\* step consumes a line or leaves a loop, the line that ended a bookmark
\* record being consumed by the next outer iteration; and a fenced block
\* without closing fence ends at the end of input, all lines consumed.
ThmC13 ==
    /\ <>Returned
    /\ [][StepsForward]_vars
    /\ [](UnclosedEmitted => i = Len(lines))

\* md_to_html has returned on a two-line document whose first line opens
\* a fenced block that is never closed.
WitC13 ==
    /\ pc = "md_done"
    /\ Len(lines) = 2
    /\ lines[1] = Fence \o "video v1"
    /\ lines[2] \notin {Fence, Fence \o "video v1"}
    /\ Len(out) = 1

-----------------------------------------------------------------------------
(* build_v3.md_to_html: "for raw in lines", no fenced block. Its helper    *)
(* functions are those of build.py, text for text.                         *)

v3_start ==
    [out |-> <<>>, in_ul |-> FALSE, in_ol |-> FALSE, in_bq |-> FALSE,
     in_teacher |-> FALSE]

\* The branches before "else: close_bq()": does the line take one of them?
v3_early(line) ==
    \/ strip(line) \in {":::teacher", ":::", ""}
    \/ VideoRefId(strip(line)) # ""
    \/ HeadingLevel(strip(line)) # 0
    \/ startswith(lstrip(line), ">")

\* One iteration that ends in one of those branches.
v3_block(s, line, res) ==
    LET t == strip(line)
        c == close_bq(close_lists(s))
    IN  IF t = ":::teacher"
        THEN [(IF ~s.in_teacher
               THEN [c EXCEPT !.out = Append(@, "<div class=\"teacher-only\">")]
               ELSE c) EXCEPT !.in_teacher = TRUE]
        ELSE IF t = ":::"
        THEN [(IF s.in_teacher
               THEN [c EXCEPT !.out = Append(@, "</div>")]
               ELSE c) EXCEPT !.in_teacher = FALSE]
        ELSE IF VideoRefId(t) # ""
        THEN [c EXCEPT !.out = Append(@, video_block(VideoRefId(t), res))]
        ELSE IF t = "" THEN c
        ELSE IF HeadingLevel(t) # 0
        THEN [c EXCEPT !.out =
                 Append(@, "<h" \o Str(HeadingLevel(t))
                           \o (IF HeadingLevel(t) # 1 THEN ""
                               ELSE " class=\"doc-title\"")
                           \o ">" \o html_escape(strip(HeadingText(t)))
                           \o "</h" \o Str(HeadingLevel(t)) \o ">")]
        ELSE LET q == close_lists(s)
                 q1 == IF ~q.in_bq
                       THEN [q EXCEPT !.out = Append(@, "<blockquote>"),
                                      !.in_bq = TRUE]
                       ELSE q
             IN  [q1 EXCEPT !.out =
                     Append(@, "<p>" \o Inline(lstrip(From(lstrip(line), 2)), res)
                               \o "</p>")]

\* One iteration from the ordered-list test on; s is the state the
\* iteration has reached there.
v3_lists(s, line, res) ==
    LET t == strip(line)
    IN  IF OlText(t) # 0
        THEN LET s1 == IF s.in_ul
                       THEN [s EXCEPT !.out = Append(@, "</ul>"), !.in_ul = FALSE]
                       ELSE s
                 s2 == IF ~s1.in_ol
                       THEN [s1 EXCEPT !.out = Append(@, "<ol>"), !.in_ol = TRUE]
                       ELSE s1
             IN  [s2 EXCEPT !.out =
                     Append(@, "<li>" \o Inline(strip(From(t, OlText(t))), res)
                               \o "</li>")]
        ELSE IF UlText(t) # 0
        THEN LET s1 == IF s.in_ol
                       THEN [s EXCEPT !.out = Append(@, "</ol>"), !.in_ol = FALSE]
                       ELSE s
                 s2 == IF ~s1.in_ul
                       THEN [s1 EXCEPT !.out = Append(@, "<ul>"), !.in_ul = TRUE]
                       ELSE s1
             IN  [s2 EXCEPT !.out =
                     Append(@, "<li>" \o Inline(strip(From(t, UlText(t))), res)
                               \o "</li>")]
        ELSE LET s1 == close_lists(s)
             IN  [s1 EXCEPT !.out = Append(@, "<p>" \o Inline(t, res) \o "</p>")]

\* Faulty variant of v3_line: the "else: close_bq()" is left out.
v3_line_keeps_bq(s, line, res) ==
    IF v3_early(line) THEN v3_block(s, line, res) ELSE v3_lists(s, line, res)

\* The body of "for raw in lines" on one line.
v3_line(s, line, res) ==
    IF v3_early(line) THEN v3_block(s, line, res)
    ELSE v3_lists(close_bq(s), line, res)

\* The locals after the first k lines.
RECURSIVE v3_loop(_, _, _)
v3_loop(k, doc, res) ==
    IF k = 0 THEN v3_start ELSE v3_line(v3_loop(k - 1, doc, res), doc[k], res)

\* After the loop: close_lists(); close_bq(); the teacher wrapper; return.
v3_md_to_html(doc, res) ==
    LET s == close_bq(close_lists(v3_loop(Len(doc), doc, res)))
    IN  Join("\n", IF s.in_teacher THEN Append(s.out, "</div>") ELSE s.out)

\* No trimmed line of the document opens a fenced video block.
NoOpener == \A j \in 1..Len(lines) : FenceId(strip(lines[j])) = ""

\* The locals of build.md_to_html that build_v3.md_to_html has too.
SharedLocals ==
    [out |-> out, in_ul |-> in_ul, in_ol |-> in_ol, in_bq |-> in_bq,
     in_teacher |-> in_teacher]

\* C14: on a document without fenced-video opener, build.md_to_html has
\* after every line the output fragments and the four flags that
\* build_v3.md_to_html has after that line, never reads a block, and
\* returns the string build_v3.md_to_html returns.
ThmC14 ==
    NoOpener =>
    /\ pc # "md_fence"
    /\ pc = "md_loop" => SharedLocals = v3_loop(i, lines, resources)
    /\ pc = "md_done" => ret = v3_md_to_html(lines, resources)

\* Both have returned on a three-line document without opener that holds
\* a quotation followed by a list item, the teacher section open.
WitC14 ==
    /\ pc = "md_done"
    /\ NoOpener
    /\ lines = <<":::teacher", "> q", "- a">>
    /\ ret = v3_md_to_html(lines, resources)

-----------------------------------------------------------------------------
(* Claim C15, on the two inline passes composed.                           *)

\* The id of the token the text under conversion holds.
TokenId == Sub(parts.tok, 8, Len(parts.tok) - 2)

\* The token names an id without entry, or with an empty url.
TokenMissing ==
    /\ parts.tok # ""
    /\ (TokenId \notin DOMAIN resources \/ resources[TokenId].url = "")

\* C15 as stated: after expand_inline_refs and then inline_format, a token
\* whose id is unmapped or has no url stands in the result as Missing:id
\* inside a code element, the element kept as markup.
CexC15 ==
    (pc = "inline" /\ TokenMissing) =>
        Contains(ret, "<code>Missing:" \o TokenId \o "</code>")

-----------------------------------------------------------------------------
(* Claims C16 and C17, on parse_bookmarks.                                 *)

\* The last line of the record of the declaration at line k when only a
\* well-formed declaration ends a record.
RecordEnd(k) ==
    Min({j \in (k + 1)..Len(lines) : DeclAt(j) # ""} \cup {Len(lines) + 1}) - 1

\* The value that record holds for the key: that of its last line for the
\* key; "" when it has none.
RecordValue(k, key) ==
    LET hits == {j \in (k + 1)..RecordEnd(k) : KvKey(rstrip(lines[j])) = key}
    IN  IF hits = {} THEN "" ELSE KvValue(rstrip(lines[Max(hits)]))

\* C16 as stated: a line that is neither a well-formed declaration nor a
\* key line does not end the open record, a line that begins like a
\* declaration without being one included: when parse_bookmarks returns,
\* every declared id holds what the key lines up to the next well-formed
\* declaration or the end of input set.
CexC16 ==
    pc = "pb_done" =>
        \A r \in DeclaredIds :
            /\ resources[r].label = RecordValue(LastDecl(r), "label")
            /\ resources[r].url = RecordValue(LastDecl(r), "url")
            /\ resources[r].desc = RecordValue(LastDecl(r), "desc")

\* The ids declared when declarations are matched on the trimmed line.
TrimmedIds == {DeclId(strip(lines[k])) : k \in 1..Len(lines)} \ {""}

\* The last line whose trimmed text declares r.
LastTrimmedDecl(r) == Max({k \in 1..Len(lines) : DeclId(strip(lines[k])) = r})

\* The value the lines after the declaration at line k set for the key,
\* indented or not, up to the next line that begins a declaration.
TrimmedValue(k, key) ==
    LET stop == Min({j \in (k + 1)..Len(lines) : DeclKind(strip(lines[j])) # ""}
                    \cup {Len(lines) + 1})
        hits == {j \in (k + 1)..(stop - 1) : KvKey(strip(lines[j])) = key}
    IN  IF hits = {} THEN "" ELSE KvValue(strip(lines[Max(hits)]))

\* C17 as stated: declarations and key lines are recognised on the trimmed
\* line: when parse_bookmarks returns, the ids are those the trimmed lines
\* declare, each with the values its key lines set, indented or not.
CexC17 ==
    pc = "pb_done" =>
        /\ DOMAIN resources = TrimmedIds
        /\ \A r \in TrimmedIds \cap DOMAIN resources :
              /\ resources[r].label = TrimmedValue(LastTrimmedDecl(r), "label")
              /\ resources[r].url = TrimmedValue(LastTrimmedDecl(r), "url")
              /\ resources[r].desc = TrimmedValue(LastTrimmedDecl(r), "desc")

-----------------------------------------------------------------------------
(* Claim C18, on the quotation wrapper of md_to_html.                      *)

\* The closing tags owed for the lists open when the iteration began.
ListClosersOf(p) ==
    (IF p.in_ul THEN <<"</ul>">> ELSE <<>>)
    \o (IF p.in_ol THEN <<"</ol>">> ELSE <<>>)

IsPara(f) == startswith(f, "<p>") /\ From(f, Len(f) - 3) = "</p>"

\* The last outer iteration, or the code after the loop, has run on
\* something other than a quotation line.
AfterOther ==
    /\ pc \in {"md_loop", "md_fence", "md_done"}
    /\ prev.i >= 0
    /\ LastKind # "blockquote"

\* C18: a quotation line appends the closing tags of the open lists, the
\* opening wrapper only if no quotation is open, and one paragraph, never
\* the closing wrapper, and leaves the quotation open and the lists
\* closed; the quotation is open whenever the line before was a quotation
\* line; the first thing any other line, or the end of input, appends
\* while a quotation is open is the one closing wrapper; and in every
\* prefix of the output the wrappers pair up, closed at the return.
ThmC18 ==
    /\ (pc = "md_loop" /\ LastKind = "blockquote") =>
          /\ in_bq /\ ~in_ul /\ ~in_ol
          /\ Emitted = ListClosersOf(prev)
                       \o (IF prev.in_bq THEN <<>> ELSE <<"<blockquote>">>)
                       \o <<Emitted[Len(Emitted)]>>
          /\ IsPara(Emitted[Len(Emitted)])
          /\ (prev.i >= 1 /\ Dispatch(lines[prev.i]) = "blockquote") => prev.in_bq
    /\ AfterOther =>
          /\ ~in_bq
          /\ \A k \in 1..Len(Emitted) :
                /\ Emitted[k] # "<blockquote>"
                /\ Emitted[k] = "</blockquote>" <=> (prev.in_bq /\ k = 1)
          /\ prev.in_bq => Len(Emitted) >= 1
    /\ \A k \in 0..Len(out) :
          Count({"<blockquote>"}, k) - Count({"</blockquote>"}, k) \in {0, 1}
    /\ pc = "md_done" =>
          Count({"<blockquote>"}, Len(out)) = Count({"</blockquote>"}, Len(out))

\* A run of two quotation lines followed by a paragraph has been rendered:
\* one wrapper around the two paragraphs, closed before the third.
WitC18 ==
    /\ pc = "md_done"
    /\ lines = <<"> q", "> q", "p">>
    /\ out = <<"<blockquote>", "<p>q</p>", "<p>q</p>", "</blockquote>", "<p>p</p>">>

-----------------------------------------------------------------------------
(* Claim C19, on the key lines of a fenced block.                          *)

\* The inner loop has just taken a watch or after key line.
AfterListKey ==
    /\ pc = "md_fence"
    /\ i >= BlockStart
    /\ RefKey(lines[i]) \in {"watch", "after"}

\* C19 as stated: the text of a watch or after key line is the first item
\* of the list of its section, whatever the block held before the line.
CexC19 ==
    AfterListKey =>
        /\ current = RefKey(lines[i])
        /\ RefText(lines[i]) # "" =>
              /\ prompts[RefKey(lines[i])] # <<>>
              /\ prompts[RefKey(lines[i])][1] = RefText(lines[i])

\* C19: the text of a watch or after key line, when not empty, is put
\* after the items its section has collected so far, so that it is the
\* first item only if the section had none; a key line without text
\* leaves the list as it was; the current section becomes the key in
\* both cases.
ThmC19 ==
    AfterListKey =>
        /\ current = RefKey(lines[i])
        /\ prompts[RefKey(lines[i])] =
              RefFold(i - 1).prompts[RefKey(lines[i])]
              \o (IF RefText(lines[i]) # "" THEN <<RefText(lines[i])>> ELSE <<>>)

\* A second watch line has been taken after an item of the section: its
\* text is the second item.
WitC19 ==
    /\ pc = "md_fence"
    /\ i >= BlockStart + 2
    /\ lines[i] = "watch: pace"
    /\ prompts.watch = <<"tone", "pace">>

-----------------------------------------------------------------------------
(* Claim C20, on the three wrapper flags of md_to_html.                    *)

\* At most one of the three wrappers is open in the locals s.
OneOpen(s) == ~(s.in_ul /\ s.in_ol) /\ ~(s.in_ul /\ s.in_bq) /\ ~(s.in_ol /\ s.in_bq)

\* C20: at most one of in_ul, in_ol and in_bq is true, in build.py at
\* every point of every document and in build_v3.py after every line of
\* every document converted; a quotation line met while a list is open
\* appends the closing tag of the list before the opening wrapper, and a
\* list item met while a quotation is open appends the closing wrapper
\* before the opening tag of its list.
ThmC20 ==
    /\ OneOpen(Locals)
    /\ pc = "md_done" =>
          \A k \in 0..Len(lines) : OneOpen(v3_loop(k, lines, resources))
    /\ (pc = "md_loop" /\ LastKind = "blockquote" /\ (prev.in_ul \/ prev.in_ol)) =>
          /\ Len(Emitted) = 3
          /\ Emitted[1] \in {"</ul>", "</ol>"}
          /\ Emitted[2] = "<blockquote>"
    /\ (pc = "md_loop" /\ LastKind \in {"ol", "ul"} /\ prev.in_bq) =>
          /\ Len(Emitted) = 3
          /\ Emitted[1] = "</blockquote>"
          /\ Emitted[2] = (IF LastKind = "ol" THEN "<ol>" ELSE "<ul>")

\* An ordered item has been taken while the quotation that had closed an
\* unordered list was open.
WitC20 ==
    /\ pc = "md_loop"
    /\ lines = <<"- a", "> q", "1. b">>
    /\ i = 3
    /\ prev.in_bq
    /\ in_ol /\ ~in_bq /\ ~in_ul

-----------------------------------------------------------------------------
(* Claim C21, on the wrapper tags of the output read as a bracket word.    *)

\* The wrapper a fragment opens, "" if it opens none.
Opens(f) ==
    IF f = "<ul>" THEN "ul"
    ELSE IF f = "<ol>" THEN "ol"
    ELSE IF f = "<blockquote>" THEN "bq"
    ELSE IF f = "<div class=\"teacher-only\">" THEN "teacher"
    ELSE ""

\* The wrapper a fragment closes, "" if it closes none.
Closes(f) ==
    IF f = "</ul>" THEN "ul"
    ELSE IF f = "</ol>" THEN "ol"
    ELSE IF f = "</blockquote>" THEN "bq"
    ELSE IF f = "</div>" THEN "teacher"
    ELSE ""

\* The wrappers open after the first k fragments, outermost first; the
\* word <<"bad">> once a closer has met another wrapper than the
\* innermost open one, or an item or a wrapper stood where none may.
RECURSIVE Nesting(_)
Nesting(k) ==
    IF k = 0 THEN <<>>
    ELSE LET st == Nesting(k - 1)
             f == out[k]
             top == IF st = <<>> THEN "" ELSE st[Len(st)]
         IN  IF st = <<"bad">> THEN st
             ELSE IF Opens(f) # ""
             THEN IF top \in {"ul", "ol", "bq"}
                     \/ (top = "teacher" /\ Opens(f) = "teacher")
                  THEN <<"bad">> ELSE Append(st, Opens(f))
             ELSE IF Closes(f) # ""
             THEN IF top = Closes(f) THEN SubSeq(st, 1, Len(st) - 1) ELSE <<"bad">>
             ELSE IF IsItem(f) /\ top \notin {"ul", "ol"} THEN <<"bad">>
             ELSE st

\* The wrappers the flags say are open, outermost first.
OpenByFlags ==
    (IF in_teacher THEN <<"teacher">> ELSE <<>>)
    \o (IF in_ul THEN <<"ul">> ELSE <<>>)
    \o (IF in_ol THEN <<"ol">> ELSE <<>>)
    \o (IF in_bq THEN <<"bq">> ELSE <<>>)

\* C21: at every point the wrapper tags emitted so far nest properly,
\* every closer matching the innermost open wrapper, lists and quotations
\* never holding another wrapper, the teacher section never nested in
\* itself, every item standing in a list, and while the loop runs the
\* wrappers left open are those the flags record; the paragraph of a
\* quotation line is emitted with the quotation wrapper innermost; at the
\* return nothing is open and every wrapper has as many closers as openers.
ThmC21 ==
    /\ pc # "md_done" => Nesting(Len(out)) = OpenByFlags
    /\ (pc = "md_loop" /\ LastKind = "blockquote") =>
          LET st == Nesting(Len(out) - 1)
          IN  st # <<>> /\ st[Len(st)] = "bq"
    /\ pc = "md_done" =>
          /\ Nesting(Len(out)) = <<>>
          /\ \A w \in {"ul", "ol", "bq", "teacher"} :
                Cardinality({k \in 1..Len(out) : Opens(out[k]) = w})
                    = Cardinality({k \in 1..Len(out) : Closes(out[k]) = w})

\* A list opened inside the teacher section has been closed by the marker
\* that ends the section, before the section's closer.
WitC21 ==
    /\ pc = "md_done"
    /\ lines = <<":::teacher", "- a", ":::">>
    /\ out = <<"<div class=\"teacher-only\">", "<ul>", "<li>a</li>", "</ul>",
               "</div>">>

-----------------------------------------------------------------------------
(* main: parse_bookmarks and then md_to_html on the one source text.       *)

MaxMainLines == 3

MainLines ==
    {"@video v1", "@link l1", "label: # T", "url: u", "desc: - x", "- a", "> q",
     Fence \o "video v1", Fence}

MainDocs == UNION {[1..n -> MainLines] : n \in 0..MaxMainLines}

\* md has been read and parse_bookmarks(md) is entered.
InitMain ==
    /\ lines \in MainDocs
    /\ resources = EmptyMap
    /\ i = 0
    /\ out = <<>>
    /\ in_ul = FALSE /\ in_ol = FALSE /\ in_bq = FALSE /\ in_teacher = FALSE
    /\ rid = "" /\ prompts = NoPrompts /\ current = ""
    /\ item = NoItem0
    /\ pc = "pb_outer"
    /\ prev = NoPrev
    /\ ret = ""
    /\ text = "" /\ parts = NoParts

\* content = md_to_html(md, resources): the same md, the mapping that
\* parse_bookmarks returned, fresh locals.
CallRender ==
    /\ pc = "pb_done"
    /\ pc' = "md_loop"
    /\ i' = 0
    /\ rid' = ""
    /\ item' = NoItem0
    /\ UNCHANGED <<lines, resources, ret, renderVars, inlineVars>>

NextMain ==
    \/ NextBookmarks
    \/ CallRender
    \/ FenceOpen \/ FenceLine \/ FenceEnd
    \/ Blockquote \/ UnorderedItem \/ Paragraph \/ Finish

SpecMain == InitMain /\ [][NextMain]_vars

-----------------------------------------------------------------------------
(* Claim C22, on the bookmark lines as md_to_html takes them.              *)

\* The line is a declaration or an attribute line for parse_bookmarks.
IsBookmarkLine(l) == DeclId(rstrip(l)) # "" \/ KvKey(rstrip(l)) # ""

\* After its first k lines the document stands inside a fenced block.
RECURSIVE InsideAfter(_)
InsideAfter(k) ==
    IF k = 0 THEN FALSE
    ELSE IF InsideAfter(k - 1) THEN ~startswith(strip(lines[k]), Fence)
    ELSE FenceId(strip(lines[k])) # ""

\* The bookmark lines that stand outside every fenced block.
BookmarkLinesOutside ==
    {k \in 1..Len(lines) : IsBookmarkLine(lines[k]) /\ ~InsideAfter(k - 1)}

Rendering == pc \in {"md_loop", "md_fence", "md_done"}

\* C22: md_to_html runs on the text parse_bookmarks has read; every
\* declaration and attribute line dispatches to the paragraph branch; one
\* taken by the outer loop leaves list and quotation closed and appends
\* their closing tags and then the line as one paragraph; and the
\* paragraphs returned are at least as many as the bookmark lines outside
\* fenced blocks.
ThmC22 ==
    Rendering =>
    /\ DOMAIN resources = DeclaredIds
    /\ \A k \in 1..Len(lines) :
          IsBookmarkLine(lines[k]) => Dispatch(lines[k]) = "paragraph"
    /\ (pc = "md_loop" /\ prev.i >= 0 /\ IsBookmarkLine(lines[prev.i + 1])) =>
          /\ prev.i + 1 \in BookmarkLinesOutside
          /\ ~in_ul /\ ~in_ol /\ ~in_bq
          /\ Emitted = ClosersOf(prev) \o <<"<p>" \o lines[prev.i + 1] \o "</p>">>
    /\ pc = "md_done" =>
          /\ Cardinality({k \in 1..Len(out) : IsPara(out[k])})
                 >= Cardinality(BookmarkLinesOutside)
          /\ \A k \in BookmarkLinesOutside :
                \E j \in 1..Len(out) : out[j] = "<p>" \o lines[k] \o "</p>"

\* A declaration and its url line have been rendered as two paragraphs
\* after a list, the mapping holding the entry parsed from them.
WitC22 ==
    /\ pc = "md_done"
    /\ lines = <<"- a", "@video v1", "url: u">>
    /\ resources["v1"].url = "u"
    /\ out = <<"<ul>", "<li>a</li>", "</ul>", "<p>@video v1</p>", "<p>url: u</p>">>

=============================================================================
